---- MODULE Spec2Model ----
(***************************************************************************)
(* Thinking-continuity gateway: the thinking cache, the streaming          *)
(* translator Claude -> OpenAI, the reverse translator OpenAI -> Claude    *)
(* and the thinking-configuration resolver (ApplyThinking).                *)
(*                                                                         *)
(* Strings are sequences of tokens.  A token is a TLA+ string standing for *)
(* a run of bytes that no regular expression of the program splits: the    *)
(* delimiters "<think>" and "</think>", the fence of three backquotes,     *)
(* the tags that follow a fence, one hex digit, one white-space byte, one  *)
(* letter, and a 25-byte block of signature bytes.                         *)
(***************************************************************************)
EXTENDS Integers, Sequences, FiniteSets, TLC

VARIABLES now, thinkingCache, signatureCache, cacheRes, lastPut, lastTouch,
          param, events, chunks, clientText, parts,
          request, claudeRequest,
          applyIn, applyOut,
          modelAliases, aliasesLoaded, aliasesMutex, setter, resolver, normalized,
          effortBudget,
          nonStream, sweeper, buckets, tasks, globals

vars == <<now, thinkingCache, signatureCache, cacheRes, lastPut, lastTouch,
          param, events, chunks, clientText, parts,
          request, claudeRequest,
          applyIn, applyOut,
          modelAliases, aliasesLoaded, aliasesMutex, setter, resolver, normalized,
          effortBudget,
          nonStream, sweeper, buckets, tasks, globals>>

cacheVars == <<thinkingCache, signatureCache, cacheRes, lastPut, lastTouch>>
streamVars == <<param, events, chunks, clientText, parts>>
requestVars == <<request, claudeRequest>>
applyVars == <<applyIn, applyOut>>
aliasVars == <<modelAliases, aliasesLoaded, aliasesMutex, setter, resolver, normalized,
               effortBudget>>
\* the variables of the specifications that follow the alias table
auxVars == <<nonStream, sweeper, buckets, tasks, globals>>

(***************************************************************************)
(* Tokens                                                                  *)
(***************************************************************************)
OT == "<think>"
CT == "</think>"
\* the fence of three backquotes, written with quotes
FENCE == "'''"
TAGID == "plaintext:thinkId:"
TAGTHINKING == "plaintext:Thinking\n"
TAGSIGNATURE == "plaintext:Signature:"
\* the escaped fence: each backquote preceded by a backslash
ESCFENCE == "\\'\\'\\'"
NL == "\n"
SP == " "
SIGA == "sigA*25"
SIGB == "sigB*25"

HexDigits == <<"0", "1", "2", "3", "4", "5", "6", "7",
               "8", "9", "a", "b", "c", "d", "e", "f">>

IsHex(tok) == \E i \in 1..16 : HexDigits[i] = tok

IsSpace(tok) == tok \in {NL, SP}

\* every token a text can hold, in a fixed order (the order gives a token its code)
Alphabet == <<"x", "y", NL, SP, OT, CT, FENCE, TAGID, TAGTHINKING, TAGSIGNATURE,
              ESCFENCE, SIGA, SIGB>> \o HexDigits

TokCode(tok) == CHOOSE i \in 1..Len(Alphabet) : Alphabet[i] = tok

\* len(s) of Go: the number of bytes of the string
Width(tok) == IF tok \in {SIGA, SIGB} THEN 25 ELSE 1

RECURSIVE ByteLen(_)
ByteLen(s) == IF s = <<>> THEN 0 ELSE Width(Head(s)) + ByteLen(Tail(s))

(***************************************************************************)
(* strings.TrimSpace                                                       *)
(***************************************************************************)
RECURSIVE TrimLeft(_)
TrimLeft(s) == IF s # <<>> /\ IsSpace(Head(s)) THEN TrimLeft(Tail(s)) ELSE s

RECURSIVE TrimRight(_)
TrimRight(s) ==
    IF s # <<>> /\ IsSpace(s[Len(s)]) THEN TrimRight(SubSeq(s, 1, Len(s) - 1)) ELSE s

TrimSpace(s) == TrimRight(TrimLeft(s))

\* strings.ReplaceAll(s, escaped fence, fence)
UnescapeFence(s) == [i \in 1..Len(s) |-> IF s[i] = ESCFENCE THEN FENCE ELSE s[i]]

\* strings.Contains(s, sub)
Contains(s, sub) ==
    \E i \in 1..(Len(s) - Len(sub) + 1) : SubSeq(s, i, i + Len(sub) - 1) = sub

(***************************************************************************)
(* The cache: identifiers, validity, time                                  *)
(***************************************************************************)
ThinkingIDLen == 32
SignatureTextHashLen == 16
MinValidSignatureLen == 50
\* durations are counted in hours
ThinkingCacheTTL == 2
SignatureCacheTTL == 2

MaxTime == 4

NotFound == [found |-> FALSE]

\* two hex digits per token
HexOfTok(tok) == <<HexDigits[(TokCode(tok) \div 16) + 1], HexDigits[(TokCode(tok) % 16) + 1]>>

RECURSIVE HexDigest(_)
HexDigest(text) == IF text = <<>> THEN <<>> ELSE HexOfTok(Head(text)) \o HexDigest(Tail(text))

\* hex.EncodeToString(h[:])[:n]: n hex digits that depend on the text alone
Digest(text, n) ==
    LET d == HexDigest(text)
    IN  [i \in 1..n |-> IF i <= Len(d) THEN d[i] ELSE "0"]

GenerateThinkingID(thinkingText) == Digest(thinkingText, ThinkingIDLen)

hashText(text) == Digest(text, SignatureTextHashLen)

\* a predicate that accepts every non-empty signature
HasValidSignature_NonEmpty(signature) == signature # <<>>

HasValidSignature(signature) ==
    signature # <<>> /\ ByteLen(signature) >= MinValidSignatureLen

\* a Put that keeps the entry already stored under the identifier
CacheThinking_KeepFirst(cache, thinkingID, thinkingText, signature, t) ==
    IF thinkingID = <<>> \/ thinkingText = <<>> \/ thinkingID \in DOMAIN cache
    THEN cache
    ELSE [id \in DOMAIN cache \cup {thinkingID} |->
            IF id = thinkingID
            THEN [ThinkingText |-> thinkingText, Signature |-> signature, Timestamp |-> t]
            ELSE cache[id]]

\* CacheThinking: the thinking cache after the call
CacheThinking(cache, thinkingID, thinkingText, signature, t) ==
    IF thinkingID = <<>> \/ thinkingText = <<>>
    THEN cache
    ELSE [id \in DOMAIN cache \cup {thinkingID} |->
            IF id = thinkingID
            THEN [ThinkingText |-> thinkingText, Signature |-> signature, Timestamp |-> t]
            ELSE cache[id]]

\* a Get that never checks the age of the entry
GetCachedThinking_NoExpiry(cache, thinkingID, t) ==
    IF thinkingID = <<>> \/ thinkingID \notin DOMAIN cache
    THEN [ret |-> NotFound, cache |-> cache]
    ELSE [ret |-> [found |-> TRUE,
                   ThinkingText |-> cache[thinkingID].ThinkingText,
                   Signature |-> cache[thinkingID].Signature],
          cache |-> cache]

\* GetCachedThinking: the entry returned (or NotFound) and the cache after the call
GetCachedThinking(cache, thinkingID, t) ==
    IF thinkingID = <<>> \/ thinkingID \notin DOMAIN cache
    THEN [ret |-> NotFound, cache |-> cache]
    ELSE IF t - cache[thinkingID].Timestamp > ThinkingCacheTTL
         THEN [ret |-> NotFound,
               cache |-> [id \in DOMAIN cache \ {thinkingID} |-> cache[id]]]
         ELSE [ret |-> [found |-> TRUE,
                        ThinkingText |-> cache[thinkingID].ThinkingText,
                        Signature |-> cache[thinkingID].Signature],
               cache |-> cache]

\* ClearThinkingCache: one identifier, or every entry when the identifier is empty
ClearThinkingCache(cache, thinkingID) ==
    IF thinkingID # <<>>
    THEN [id \in DOMAIN cache \ {thinkingID} |-> cache[id]]
    ELSE << >>

\* getOrCreateSession: the top-level map with a bucket for the session
getOrCreateSession(sc, sessionID) ==
    IF sessionID \in DOMAIN sc
    THEN sc
    ELSE [k \in DOMAIN sc \cup {sessionID} |-> IF k = sessionID THEN << >> ELSE sc[k]]

\* CacheSignature: the signature cache after the call
CacheSignature(sc, sessionID, text, signature, t) ==
    IF sessionID = "" \/ text = <<>> \/ signature = <<>>
    THEN sc
    ELSE IF ByteLen(signature) < MinValidSignatureLen
    THEN sc
    ELSE LET withSession == getOrCreateSession(sc, sessionID)
             textHash == hashText(text)
             bucket == withSession[sessionID]
         IN  [withSession EXCEPT ![sessionID] =
                [h \in DOMAIN bucket \cup {textHash} |->
                    IF h = textHash
                    THEN [Signature |-> signature, Timestamp |-> t]
                    ELSE bucket[h]]]

\* GetCachedSignature: the signature returned ("" when absent or expired) and
\* the signature cache after the call
GetCachedSignature(sc, sessionID, text, t) ==
    IF sessionID = "" \/ text = <<>>
    THEN [ret |-> <<>>, cache |-> sc]
    ELSE IF sessionID \notin DOMAIN sc
    THEN [ret |-> <<>>, cache |-> sc]
    ELSE LET textHash == hashText(text)
             bucket == sc[sessionID]
         IN  IF textHash \notin DOMAIN bucket
             THEN [ret |-> <<>>, cache |-> sc]
             ELSE IF t - bucket[textHash].Timestamp > SignatureCacheTTL
             THEN [ret |-> <<>>,
                   cache |-> [sc EXCEPT ![sessionID] =
                                [h \in DOMAIN bucket \ {textHash} |-> bucket[h]]]]
             ELSE [ret |-> bucket[textHash].Signature,
                   cache |-> [sc EXCEPT ![sessionID][textHash].Timestamp = t]]

\* ClearSignatureCache: one session, or every session when the name is empty
ClearSignatureCache(sc, sessionID) ==
    IF sessionID # ""
    THEN [k \in DOMAIN sc \ {sessionID} |-> sc[k]]
    ELSE << >>

(***************************************************************************)
(* The cache under Put, Get, Purge and the passage of time                 *)
(***************************************************************************)
CacheTexts == {<<>>, <<"x">>}
CacheSigs == {<<SIGA>>, <<SIGA, SIGB>>}
SigTexts == {<<"x">>}
SigSigs == {<<SIGA>>, <<SIGA, SIGB>>}
Sessions == {"s1"}
NeverStoredText == <<"y", "y">>
GetIDs == {GenerateThinkingID(t) : t \in CacheTexts \cup {NeverStoredText}}

NoGhost == << >>

StreamIdle ==
    /\ param = << >>
    /\ events = <<>>
    /\ chunks = <<>>
    /\ clientText = <<>>
    /\ parts = <<>>

RequestIdle ==
    /\ request = << >>
    /\ claudeRequest = << >>

ApplyIdle ==
    /\ applyIn = << >>
    /\ applyOut = << >>

\* nothing materialized, no task at work
AuxIdle ==
    /\ nonStream = << >>
    /\ sweeper = << >>
    /\ buckets = << >>
    /\ tasks = << >>
    /\ globals = << >>

\* the alias table as the process starts: nothing loaded, nobody at work
AliasIdle ==
    /\ modelAliases = << >>
    /\ aliasesLoaded = FALSE
    /\ aliasesMutex = [writer |-> FALSE, readers |-> 0]
    /\ setter = [pc |-> "idle", arg |-> "none", last |-> "none", prev |-> "none", count |-> 0]
    /\ resolver = [pc |-> "idle"]
    /\ normalized = << >>
    /\ effortBudget = << >>

InitCache ==
    /\ now = 0
    /\ thinkingCache = << >>
    /\ signatureCache = << >>
    /\ cacheRes = [op |-> "init"]
    /\ lastPut = NoGhost
    /\ lastTouch = NoGhost
    /\ StreamIdle
    /\ RequestIdle
    /\ ApplyIdle
    /\ AliasIdle
    /\ AuxIdle

\* the clock advances by one hour
Tick ==
    /\ now < MaxTime
    /\ now' = now + 1
    /\ cacheRes' = [op |-> "tick"]
    /\ UNCHANGED <<thinkingCache, signatureCache, lastPut, lastTouch>>
    /\ UNCHANGED <<streamVars, requestVars, applyVars, aliasVars, auxVars>>

\* Put(text, signature): the identifier is the hash of the text
Put(text, signature) ==
    LET id == GenerateThinkingID(text)
    IN  /\ thinkingCache' = CacheThinking(thinkingCache, id, text, signature, now)
        /\ cacheRes' = [op |-> "put", id |-> id]
        /\ lastPut' = [k \in DOMAIN lastPut \cup {id} |->
                          IF k = id THEN [text |-> text, sig |-> signature, at |-> now]
                          ELSE lastPut[k]]
        /\ lastTouch' = [k \in DOMAIN lastTouch \cup {id} |->
                            IF k = id THEN now ELSE lastTouch[k]]
        /\ UNCHANGED <<now, signatureCache>>
        /\ UNCHANGED <<streamVars, requestVars, applyVars, aliasVars, auxVars>>

\* Get(identifier)
Get(id) ==
    LET r == GetCachedThinking(thinkingCache, id, now)
    IN  /\ thinkingCache' = r.cache
        /\ cacheRes' = [op |-> "get", id |-> id, ret |-> r.ret]
        /\ lastTouch' = IF r.ret.found
                        THEN [lastTouch EXCEPT ![id] = now]
                        ELSE lastTouch
        /\ UNCHANGED <<now, signatureCache, lastPut>>
        /\ UNCHANGED <<streamVars, requestVars, applyVars, aliasVars, auxVars>>

\* Purge(identifier | all)
Purge(id) ==
    /\ thinkingCache' = ClearThinkingCache(thinkingCache, id)
    /\ cacheRes' = [op |-> "purge", id |-> id]
    /\ lastPut' = IF id = <<>> THEN NoGhost
                   ELSE [k \in DOMAIN lastPut \ {id} |-> lastPut[k]]
    /\ lastTouch' = [k \in DOMAIN lastTouch \ (IF id = <<>> THEN GetIDs ELSE {id}) |->
                        lastTouch[k]]
    /\ UNCHANGED <<now, signatureCache>>
    /\ UNCHANGED <<streamVars, requestVars, applyVars, aliasVars, auxVars>>

SigKey(sessionID, text) == <<sessionID, hashText(text)>>

PutSignature(sessionID, text, signature) ==
    /\ signatureCache' = CacheSignature(signatureCache, sessionID, text, signature, now)
    /\ cacheRes' = [op |-> "putsig", id |-> SigKey(sessionID, text)]
    /\ lastTouch' = IF signatureCache' # signatureCache
                        \/ (sessionID \in DOMAIN signatureCache
                            /\ hashText(text) \in DOMAIN signatureCache[sessionID]
                            /\ HasValidSignature(signature) /\ text # <<>>)
                    THEN [k \in DOMAIN lastTouch \cup {SigKey(sessionID, text)} |->
                            IF k = SigKey(sessionID, text) THEN now ELSE lastTouch[k]]
                    ELSE lastTouch
    /\ UNCHANGED <<now, thinkingCache, lastPut>>
    /\ UNCHANGED <<streamVars, requestVars, applyVars, aliasVars, auxVars>>

GetSignature(sessionID, text) ==
    LET r == GetCachedSignature(signatureCache, sessionID, text, now)
    IN  /\ signatureCache' = r.cache
        /\ cacheRes' = [op |-> "getsig", id |-> SigKey(sessionID, text), ret |-> r.ret]
        /\ lastTouch' = IF r.ret # <<>>
                        THEN [lastTouch EXCEPT ![SigKey(sessionID, text)] = now]
                        ELSE lastTouch
        /\ UNCHANGED <<now, thinkingCache, lastPut>>
        /\ UNCHANGED <<streamVars, requestVars, applyVars, aliasVars, auxVars>>

PurgeSignatures(sessionID) ==
    /\ signatureCache' = ClearSignatureCache(signatureCache, sessionID)
    /\ cacheRes' = [op |-> "purgesig", id |-> sessionID]
    /\ lastTouch' = [k \in DOMAIN lastTouch \cap GetIDs |-> lastTouch[k]]
    /\ UNCHANGED <<now, thinkingCache, lastPut>>
    /\ UNCHANGED <<streamVars, requestVars, applyVars, aliasVars, auxVars>>

NextCache ==
    \/ Tick
    \/ \E text \in CacheTexts, signature \in CacheSigs : Put(text, signature)
    \/ \E id \in GetIDs : Get(id)
    \/ \E id \in GetIDs \cup {<<>>} : Purge(id)
    \/ \E s \in Sessions, text \in SigTexts, signature \in SigSigs :
            PutSignature(s, text, signature)
    \/ \E s \in Sessions, text \in SigTexts : GetSignature(s, text)
    \/ \E s \in Sessions \cup {""} : PurgeSignatures(s)

SpecCache == InitCache /\ [][NextCache]_vars

(***************************************************************************)
(* Properties of the cache                                                 *)
(***************************************************************************)
StoredEntry(id) ==
    [found |-> TRUE, ThinkingText |-> lastPut[id].text, Signature |-> lastPut[id].sig]

GetStep(id) == cacheRes'.op = "get" /\ cacheRes'.id = id

GetSigStep(key) == cacheRes'.op = "getsig" /\ cacheRes'.id = key

SigKeys == {SigKey(s, t) : s \in Sessions, t \in SigTexts}

SigStored(key) == key[1] \in DOMAIN signatureCache /\ key[2] \in DOMAIN signatureCache[key[1]]

Untouched(id, ttl) == id \in DOMAIN lastTouch /\ now - lastTouch[id] > ttl

\* C3: an entry neither rewritten nor read for longer than the TTL is not
\* returned: the Get that finds it returns not-found and removes it, and a Get
\* of an absent entry returns not-found and leaves it absent (so every later
\* Get fails until a new Put); for the thinking cache and the signature cache.
C3_ExpiredNeverReturned ==
    [][/\ \A id \in GetIDs :
            (GetStep(id) /\ (id \notin DOMAIN thinkingCache \/ Untouched(id, ThinkingCacheTTL)))
                => (~cacheRes'.ret.found /\ id \notin DOMAIN thinkingCache')
       /\ \A key \in SigKeys :
            (GetSigStep(key) /\ (~SigStored(key) \/ Untouched(key, SignatureCacheTTL)))
                => (cacheRes'.ret = <<>> /\ ~SigStored(key)')]_vars

\* a Get has just missed on a stored, non-empty text left alone for longer than the TTL
C3_Witness ==
    /\ cacheRes.op = "get"
    /\ ~cacheRes.ret.found
    /\ cacheRes.id \in DOMAIN lastPut
    /\ lastPut[cacheRes.id].text # <<>>
    /\ now - lastTouch[cacheRes.id] > ThinkingCacheTTL

\* C4: sliding expiration: an entry whose last write or last hit lies less than
\* the TTL back is returned by Get, however long ago it was stored; for the
\* thinking cache (GetCachedThinking) and the signature cache (GetCachedSignature).
C4_SlidingExpiration ==
    [][/\ \A id \in GetIDs :
            (/\ GetStep(id)
             /\ id \in DOMAIN thinkingCache
             /\ id \in DOMAIN lastTouch
             /\ now - lastTouch[id] < ThinkingCacheTTL)
                => cacheRes'.ret.found
       /\ \A key \in SigKeys :
            (/\ GetSigStep(key)
             /\ SigStored(key)
             /\ key \in DOMAIN lastTouch
             /\ now - lastTouch[key] < SignatureCacheTTL)
                => cacheRes'.ret # <<>>]_vars

\* C4, the part the signature cache keeps: an entry of the signature cache
\* whose last write or last hit lies less than the TTL back is returned.
C4_SignatureSliding ==
    [][\A key \in SigKeys :
            (/\ GetSigStep(key)
             /\ SigStored(key)
             /\ key \in DOMAIN lastTouch
             /\ now - lastTouch[key] < SignatureCacheTTL)
                => cacheRes'.ret # <<>>]_vars

(***************************************************************************)
(* Regular expressions of the reverse translator, on token sequences       *)
(***************************************************************************)
Min(S) == CHOOSE m \in S : \A k \in S : m <= k

\* the first position >= from that holds tok, 0 when there is none
FirstAt(s, tok, from) ==
    LET c == {i \in from..Len(s) : s[i] = tok}
    IN  IF c = {} THEN 0 ELSE Min(c)

NoMatch == [ok |-> FALSE]

\* thinkTagRegex: <think>([\s\S]*?)</think>
thinkTagFind(s, from) ==
    LET p == FirstAt(s, OT, from)
        q == IF p = 0 THEN 0 ELSE FirstAt(s, CT, p + 1)
    IN  IF p = 0 \/ q = 0
        THEN NoMatch
        ELSE [ok |-> TRUE, start |-> p, end |-> q, group |-> SubSeq(s, p + 1, q - 1)]

\* the end of the run of hex digits that starts at position i
RECURSIVE HexRunEnd(_, _)
HexRunEnd(s, i) == IF i <= Len(s) /\ IsHex(s[i]) THEN HexRunEnd(s, i + 1) ELSE i

\* thinkIdRegex: fence plaintext:thinkId:([a-f0-9]+) fence
thinkIdAt(s, p) ==
    /\ p + 3 <= Len(s)
    /\ s[p] = FENCE
    /\ s[p + 1] = TAGID
    /\ HexRunEnd(s, p + 2) > p + 2
    /\ HexRunEnd(s, p + 2) <= Len(s)
    /\ s[HexRunEnd(s, p + 2)] = FENCE

thinkIdFind(s, from) ==
    LET c == {p \in from..Len(s) : thinkIdAt(s, p)}
    IN  IF c = {}
        THEN NoMatch
        ELSE LET p == Min(c)
                 r == HexRunEnd(s, p + 2)
             IN  [ok |-> TRUE, start |-> p, end |-> r, group |-> SubSeq(s, p + 2, r - 1)]

\* a legacy block: fence, tag, ([\s\S]*?), fence
legacyFind(s, tag, from) ==
    LET c == {p \in from..Len(s) :
                /\ p + 2 <= Len(s)
                /\ s[p] = FENCE
                /\ s[p + 1] = tag
                /\ FirstAt(s, FENCE, p + 2) # 0}
    IN  IF c = {}
        THEN NoMatch
        ELSE LET p == Min(c)
                 q == FirstAt(s, FENCE, p + 2)
             IN  [ok |-> TRUE, start |-> p, end |-> q, group |-> SubSeq(s, p + 2, q - 1)]

\* legacyThinkingRegex
legacyThinkingFind(s, from) == legacyFind(s, TAGTHINKING, from)

\* legacySignatureRegex
legacySignatureFind(s, from) == legacyFind(s, TAGSIGNATURE, from)

RegexFind(re, s, from) ==
    CASE re = "thinkTag" -> thinkTagFind(s, from)
      [] re = "thinkId" -> thinkIdFind(s, from)
      [] re = "legacyThinking" -> legacyThinkingFind(s, from)
      [] re = "legacySignature" -> legacySignatureFind(s, from)

\* re.ReplaceAllString(s, ""): every match, left to right, without overlap
RECURSIVE ReplaceAllString(_, _)
ReplaceAllString(re, s) ==
    LET m == RegexFind(re, s, 1)
    IN  IF ~m.ok
        THEN s
        ELSE SubSeq(s, 1, m.start - 1) \o ReplaceAllString(re, SubSeq(s, m.end + 1, Len(s)))

(***************************************************************************)
(* extractThinkingFromContent                                              *)
(***************************************************************************)
TextPart(text) == [type |-> "text", text |-> text]

WithRemaining(first, remainingText) ==
    IF remainingText # <<>> THEN <<first, TextPart(remainingText)>> ELSE <<first>>

\* the text left when the think pairs and the markers are taken out
RemainingText(text) ==
    TrimSpace(ReplaceAllString("thinkId", ReplaceAllString("thinkTag", text)))

\* a restore that leaves the signature out
RestoredParts_Unsigned(entry, text) ==
    WithRemaining([type |-> "thinking", thinking |-> entry.ThinkingText],
                  RemainingText(text))

\* the branch taken on a cache hit with a valid signature
RestoredParts(entry, text) ==
    WithRemaining([type |-> "thinking",
                   thinking |-> entry.ThinkingText,
                   signature |-> entry.Signature],
                  RemainingText(text))

\* the fallback: the thinking text is read from the first think pair, unsigned
FallbackParts(thinkMatch, text) ==
    WithRemaining([type |-> "thinking",
                   thinking |-> TrimSpace(UnescapeFence(thinkMatch.group))],
                  RemainingText(text))

\* the legacy two-part format
LegacyParts(thinkingMatch, signatureMatch, text) ==
    WithRemaining([type |-> "thinking",
                   thinking |-> thinkingMatch.group,
                   signature |-> signatureMatch.group],
                  TrimSpace(ReplaceAllString("legacySignature",
                                ReplaceAllString("legacyThinking", text))))

\* no thinking format found: the orphan markers are removed
CleanParts(text) ==
    LET cleanText ==
            TrimSpace(ReplaceAllString("legacySignature",
                      ReplaceAllString("legacyThinking",
                      ReplaceAllString("thinkId",
                      ReplaceAllString("thinkTag", text)))))
    IN  IF cleanText = <<>> THEN <<>> ELSE <<TextPart(cleanText)>>

LegacyOrClean(text) ==
    LET thinkingMatch == legacyThinkingFind(text, 1)
        signatureMatch == legacySignatureFind(text, 1)
    IN  IF thinkingMatch.ok /\ signatureMatch.ok
        THEN LegacyParts(thinkingMatch, signatureMatch, text)
        ELSE CleanParts(text)

\* the parts of the message and the thinking cache after the lookup
extractThinkingFromContent(text, cache, t) ==
    LET idMatch == thinkIdFind(text, 1)
    IN  IF idMatch.ok
        THEN LET r == GetCachedThinking(cache, idMatch.group, t)
                 thinkMatch == thinkTagFind(text, 1)
             IN  IF r.ret.found /\ HasValidSignature(r.ret.Signature)
                 THEN [parts |-> RestoredParts(r.ret, text), cache |-> r.cache]
                 ELSE IF thinkMatch.ok
                 THEN [parts |-> FallbackParts(thinkMatch, text), cache |-> r.cache]
                 ELSE [parts |-> LegacyOrClean(text), cache |-> r.cache]
        ELSE [parts |-> LegacyOrClean(text), cache |-> cache]

(***************************************************************************)
(* ConvertClaudeResponseToOpenAI: one call per line of the backend stream  *)
(***************************************************************************)
modelName == "claude-sonnet-4-5"

\* *param after the nil check at the head of the function
NewParams ==
    [ResponseID |-> "", CreatedAt |-> 0, FinishReason |-> "",
     ToolCallsAccumulator |-> << >>, ThinkingAccumulator |-> << >>]

\* the chunk template, with the identifier and creation time captured so far
Template(p) ==
    [id |-> p.ResponseID,
     object |-> "chat.completion.chunk",
     created |-> IF p.CreatedAt > 0 THEN p.CreatedAt ELSE 0,
     model |-> modelName,
     delta |-> [response_metadata |-> "{}"],
     finish_reason |-> "null"]

\* sjson.Set(template, "choices.0.delta.<key>", value)
SetDelta(chunk, key, value) ==
    [chunk EXCEPT !.delta = [k \in DOMAIN chunk.delta \cup {key} |->
                                IF k = key THEN value ELSE chunk.delta[k]]]

MapPut(m, k, v) == [x \in DOMAIN m \cup {k} |-> IF x = k THEN v ELSE m[x]]

MapDelete(m, k) == [x \in DOMAIN m \ {k} |-> m[x]]

OpeningContent == <<OT, NL>>

\* "\n</think>\n" fence "plaintext:thinkId:" id fence "\n"
ClosingContent(thinkingID) == <<NL, CT, NL, FENCE, TAGID>> \o thinkingID \o <<FENCE, NL>>

Result(out, p, cache) == [out |-> out, param |-> p, cache |-> cache]

\* case "message_start"
OnMessageStart(ev, p, cache, t) ==
    IF ev.hasMessage
    THEN LET p2 == [p EXCEPT !.ResponseID = ev.messageID, !.CreatedAt = t]
             chunk == [id |-> p2.ResponseID,
                       object |-> "chat.completion.chunk",
                       created |-> p2.CreatedAt,
                       model |-> modelName,
                       delta |-> [response_metadata |-> "{}", role |-> "assistant"],
                       finish_reason |-> "null"]
         IN  Result(<<chunk>>, p2, cache)
    ELSE Result(<<Template(p)>>, p, cache)

\* a start that keeps the accumulator of a thinking block already open at the index
OnContentBlockStart_KeepOpen(ev, p, cache, t) ==
    IF ~ev.hasBlock
    THEN Result(<<>>, p, cache)
    ELSE IF ev.blockType = "tool_use"
    THEN Result(<<>>,
                [p EXCEPT !.ToolCallsAccumulator =
                    MapPut(@, ev.index, [ID |-> ev.toolID, Name |-> ev.toolName,
                                         Arguments |-> <<>>])],
                cache)
    ELSE IF ev.blockType = "thinking"
    THEN Result(<<SetDelta(Template(p), "content", OpeningContent)>>,
                IF ev.index \in DOMAIN p.ThinkingAccumulator
                THEN p
                ELSE [p EXCEPT !.ThinkingAccumulator =
                        MapPut(@, ev.index, [Thinking |-> <<>>, Signature |-> <<>>])],
                cache)
    ELSE Result(<<>>, p, cache)

\* case "content_block_start"
OnContentBlockStart(ev, p, cache, t) ==
    IF ~ev.hasBlock
    THEN Result(<<>>, p, cache)
    ELSE IF ev.blockType = "tool_use"
    THEN Result(<<>>,
                [p EXCEPT !.ToolCallsAccumulator =
                    MapPut(@, ev.index, [ID |-> ev.toolID, Name |-> ev.toolName,
                                         Arguments |-> <<>>])],
                cache)
    ELSE IF ev.blockType = "thinking"
    THEN Result(<<SetDelta(Template(p), "content", OpeningContent)>>,
                [p EXCEPT !.ThinkingAccumulator =
                    MapPut(@, ev.index, [Thinking |-> <<>>, Signature |-> <<>>])],
                cache)
    ELSE Result(<<>>, p, cache)

\* a translator that holds the thinking text back until the block is complete
OnContentBlockDelta_Buffered(ev, p, cache, t) ==
    IF ev.hasDelta /\ ev.deltaType = "thinking_delta"
    THEN Result(<<>>,
                IF ev.index \in DOMAIN p.ThinkingAccumulator
                THEN [p EXCEPT !.ThinkingAccumulator[ev.index].Thinking = @ \o ev.payload]
                ELSE p,
                cache)
    ELSE IF ev.hasDelta /\ ev.deltaType = "text_delta"
    THEN Result(<<SetDelta(Template(p), "content", ev.payload)>>, p, cache)
    ELSE Result(<<>>, p, cache)

\* case "content_block_delta"
OnContentBlockDelta(ev, p, cache, t) ==
    IF ~ev.hasDelta
    THEN Result(<<>>, p, cache)
    ELSE CASE ev.deltaType = "text_delta" ->
                Result(<<SetDelta(Template(p), "content", ev.payload)>>, p, cache)
           [] ev.deltaType = "thinking_delta" ->
                Result(<<SetDelta(Template(p), "content", ev.payload)>>,
                       IF ev.index \in DOMAIN p.ThinkingAccumulator
                       THEN [p EXCEPT !.ThinkingAccumulator[ev.index].Thinking =
                                            @ \o ev.payload]
                       ELSE p,
                       cache)
           [] ev.deltaType = "signature_delta" ->
                Result(<<>>,
                       IF ev.index \in DOMAIN p.ThinkingAccumulator
                       THEN [p EXCEPT !.ThinkingAccumulator[ev.index].Signature =
                                            @ \o ev.payload]
                       ELSE p,
                       cache)
           [] ev.deltaType = "input_json_delta" ->
                Result(<<>>,
                       IF ev.index \in DOMAIN p.ToolCallsAccumulator
                       THEN [p EXCEPT !.ToolCallsAccumulator[ev.index].Arguments =
                                            @ \o ev.payload]
                       ELSE p,
                       cache)
           [] OTHER -> Result(<<>>, p, cache)

\* a closing chunk in the legacy format, which carries the signature itself
CloseThinking_WithSignature(accumulator, index, p, cache, t) ==
    Result(<<SetDelta(Template(p), "content",
                      <<NL, FENCE, NL, FENCE, TAGSIGNATURE>> \o accumulator.Signature
                          \o <<FENCE, NL>>)>>,
           [p EXCEPT !.ThinkingAccumulator = MapDelete(@, index)],
           cache)

\* the closing chunk of a thinking block and the cache after it
CloseThinking(accumulator, index, p, cache, t) ==
    LET thinkingText == accumulator.Thinking
        signatureText == accumulator.Signature
        thinkingID == GenerateThinkingID(thinkingText)
    IN  Result(<<SetDelta(Template(p), "content", ClosingContent(thinkingID))>>,
               [p EXCEPT !.ThinkingAccumulator = MapDelete(@, index)],
               IF thinkingText # <<>>
               THEN CacheThinking(cache, thinkingID, thinkingText, signatureText, t)
               ELSE cache)

\* a tool call that is emitted with its arguments as they are, empty or not
CloseToolCall_NoDefault(accumulator, index, p, cache) ==
    LET toolCall == [index |-> index, id |-> accumulator.ID, type |-> "function",
                     function |-> [name |-> accumulator.Name,
                                   arguments |-> accumulator.Arguments]]
    IN  Result(<<SetDelta(Template(p), "tool_calls", <<toolCall>>)>>,
               [p EXCEPT !.ToolCallsAccumulator = MapDelete(@, index)],
               cache)

\* the one complete tool call of a tool block
CloseToolCall(accumulator, index, p, cache) ==
    LET arguments == IF accumulator.Arguments = <<>> THEN <<"{}">> ELSE accumulator.Arguments
        toolCall == [index |-> index, id |-> accumulator.ID, type |-> "function",
                     function |-> [name |-> accumulator.Name, arguments |-> arguments]]
    IN  Result(<<SetDelta(Template(p), "tool_calls", <<toolCall>>)>>,
               [p EXCEPT !.ToolCallsAccumulator = MapDelete(@, index)],
               cache)

\* case "content_block_stop"
OnContentBlockStop(ev, p, cache, t) ==
    IF ev.index \in DOMAIN p.ToolCallsAccumulator
    THEN CloseToolCall(p.ToolCallsAccumulator[ev.index], ev.index, p, cache)
    ELSE IF ev.index \in DOMAIN p.ThinkingAccumulator
    THEN CloseThinking(p.ThinkingAccumulator[ev.index], ev.index, p, cache, t)
    ELSE Result(<<>>, p, cache)

\* a table without the entry of max_tokens
mapAnthropicStopReasonToOpenAI_NoLength(anthropicReason) ==
    CASE anthropicReason = "end_turn" -> "stop"
      [] anthropicReason = "tool_use" -> "tool_calls"
      [] anthropicReason = "stop_sequence" -> "stop"
      [] OTHER -> "stop"

mapAnthropicStopReasonToOpenAI(anthropicReason) ==
    CASE anthropicReason = "end_turn" -> "stop"
      [] anthropicReason = "tool_use" -> "tool_calls"
      [] anthropicReason = "max_tokens" -> "length"
      [] anthropicReason = "stop_sequence" -> "stop"
      [] OTHER -> "stop"

\* usage.Get(counter).Int(): 0 for a counter the event does not carry
Counter(usage, counter) == IF counter \in DOMAIN usage THEN usage[counter] ELSE 0

\* the four counters of a chunk
UsageOfChunk(usage) ==
    [input_tokens |-> Counter(usage, "input_tokens"),
     output_tokens |-> Counter(usage, "output_tokens"),
     cache_read_input_tokens |-> Counter(usage, "cache_read_input_tokens"),
     cache_creation_input_tokens |-> Counter(usage, "cache_creation_input_tokens")]

\* the finish reason of the chunk: set only when the delta has a stop_reason
WithFinishReason(chunk, ev) ==
    IF ev.hasDelta /\ ev.hasStopReason
    THEN [chunk EXCEPT !.finish_reason = mapAnthropicStopReasonToOpenAI(ev.stopReason)]
    ELSE chunk

WithUsage(chunk, ev) ==
    IF ev.hasUsage THEN MapPut(chunk, "usage", UsageOfChunk(ev.usage)) ELSE chunk

\* case "message_delta"
OnMessageDelta(ev, p, cache, t) ==
    Result(<<WithUsage(WithFinishReason(Template(p), ev), ev)>>,
           IF ev.hasDelta /\ ev.hasStopReason
           THEN [p EXCEPT !.FinishReason = mapAnthropicStopReasonToOpenAI(ev.stopReason)]
           ELSE p,
           cache)

\* an error answer built from the chunk template
OnError_FromTemplate(ev, p, cache, t) ==
    IF ev.hasError
    THEN Result(<<MapPut(Template(p), "error",
                         [message |-> ev.errMessage, type |-> ev.errType])>>, p, cache)
    ELSE Result(<<>>, p, cache)

\* case "error"
OnError(ev, p, cache, t) ==
    IF ev.hasError
    THEN Result(<<[error |-> [message |-> ev.errMessage, type |-> ev.errType]]>>, p, cache)
    ELSE Result(<<>>, p, cache)

\* the chunks returned for one line, the parameters and the cache after the call
ConvertClaudeResponseToOpenAI(ev, param0, cache, t) ==
    LET p == IF param0 = << >> THEN NewParams ELSE param0
    IN  IF ~ev.dataTag
        THEN Result(<<>>, p, cache)
        ELSE CASE ev.type = "message_start" -> OnMessageStart(ev, p, cache, t)
               [] ev.type = "content_block_start" -> OnContentBlockStart(ev, p, cache, t)
               [] ev.type = "content_block_delta" -> OnContentBlockDelta(ev, p, cache, t)
               [] ev.type = "content_block_stop" -> OnContentBlockStop(ev, p, cache, t)
               [] ev.type = "message_delta" -> OnMessageDelta(ev, p, cache, t)
               [] ev.type = "message_stop" -> Result(<<>>, p, cache)
               [] ev.type = "ping" -> Result(<<>>, p, cache)
               [] ev.type = "error" -> OnError(ev, p, cache, t)
               [] OTHER -> Result(<<>>, p, cache)

(***************************************************************************)
(* One response stream, then the reverse translation of what the client    *)
(* received                                                                *)
(***************************************************************************)
MaxEvents == 5

BaseEvent ==
    [type |-> "", dataTag |-> TRUE, hasMessage |-> FALSE, messageID |-> "",
     hasBlock |-> FALSE, blockType |-> "", index |-> 0, toolID |-> "", toolName |-> "",
     hasDelta |-> FALSE, deltaType |-> "", payload |-> <<>>,
     hasStopReason |-> FALSE, stopReason |-> "", hasUsage |-> FALSE, usage |-> << >>,
     hasError |-> FALSE, errMessage |-> "", errType |-> ""]

MessageStart ==
    [BaseEvent EXCEPT !.type = "message_start", !.hasMessage = TRUE, !.messageID = "msg_1"]

BlockStart(blockType, index) ==
    [BaseEvent EXCEPT !.type = "content_block_start", !.hasBlock = TRUE,
                      !.blockType = blockType, !.index = index,
                      !.toolID = IF blockType = "tool_use" THEN "toolu_1" ELSE "",
                      !.toolName = IF blockType = "tool_use" THEN "search" ELSE ""]

Delta(deltaType, index, payload) ==
    [BaseEvent EXCEPT !.type = "content_block_delta", !.hasDelta = TRUE,
                      !.deltaType = deltaType, !.index = index, !.payload = payload]

BlockStop(index) == [BaseEvent EXCEPT !.type = "content_block_stop", !.index = index]

Indices == {0}
ThinkFrags == {<<"x">>, <<CT, "y">>}
SigFrags == {<<SIGA, SIGB>>}
TextFrags == {<<"y">>}
JsonFrags == {<<"{}">>}
RestTexts == {<<>>, <<NL, "y", SP>>}

StreamEvents ==
    {MessageStart}
    \cup {BlockStart(b, i) : b \in {"thinking", "tool_use"}, i \in Indices}
    \cup {Delta("thinking_delta", i, f) : i \in Indices, f \in ThinkFrags}
    \cup {Delta("signature_delta", i, f) : i \in Indices, f \in SigFrags}
    \cup {Delta("text_delta", 0, f) : f \in TextFrags}
    \cup {Delta("input_json_delta", i, f) : i \in Indices, f \in JsonFrags}
    \cup {BlockStop(i) : i \in Indices}

RECURSIVE ContentOf(_)
ContentOf(out) ==
    IF out = <<>>
    THEN <<>>
    ELSE (IF "delta" \in DOMAIN Head(out) /\ "content" \in DOMAIN Head(out).delta
          THEN Head(out).delta.content
          ELSE <<>>) \o ContentOf(Tail(out))

NotReversed == [done |-> FALSE]

CacheIdle ==
    /\ signatureCache = << >>
    /\ cacheRes = [op |-> "init"]
    /\ lastPut = NoGhost
    /\ lastTouch = NoGhost

InitStream ==
    /\ now = 1
    /\ thinkingCache = << >>
    /\ CacheIdle
    /\ param = << >>
    /\ events = <<>>
    /\ chunks = <<>>
    /\ clientText = <<>>
    /\ parts = NotReversed
    /\ RequestIdle
    /\ ApplyIdle
    /\ AliasIdle
    /\ AuxIdle

\* the translator is called with the next line of the stream
Feed(ev) ==
    LET r == ConvertClaudeResponseToOpenAI(ev, param, thinkingCache, now)
    IN  /\ Len(events) < MaxEvents
        /\ ~parts.done
        /\ param' = r.param
        /\ thinkingCache' = r.cache
        /\ events' = Append(events, ev)
        /\ chunks' = Append(chunks, r.out)
        /\ clientText' = clientText \o ContentOf(r.out)
        /\ UNCHANGED <<now, parts, signatureCache, cacheRes, lastPut, lastTouch>>
        /\ UNCHANGED <<requestVars, applyVars, aliasVars, auxVars>>

\* the client sends back the content it received, followed by ordinary text
Reverse(rest) ==
    LET text == clientText \o rest
        r == extractThinkingFromContent(text, thinkingCache, now)
    IN  /\ ~parts.done
        /\ events # <<>>
        /\ parts' = [done |-> TRUE, rest |-> rest, items |-> r.parts]
        /\ thinkingCache' = r.cache
        /\ UNCHANGED <<now, param, events, chunks, clientText>>
        /\ UNCHANGED <<signatureCache, cacheRes, lastPut, lastTouch>>
        /\ UNCHANGED <<requestVars, applyVars, aliasVars, auxVars>>

NextStream ==
    \/ \E ev \in StreamEvents : Feed(ev)
    \/ \E rest \in RestTexts : Reverse(rest)

SpecStream == InitStream /\ [][NextStream]_vars

(***************************************************************************)
(* Properties of one stream                                                *)
(***************************************************************************)
IsThinkingDelta(e, i) ==
    e.type = "content_block_delta" /\ e.deltaType = "thinking_delta" /\ e.index = i

IsSignatureDelta(e, i) ==
    e.type = "content_block_delta" /\ e.deltaType = "signature_delta" /\ e.index = i

\* a tool block opened at index i before position j is still open at j
ToolOpenAt(j, i) ==
    \E a \in 1..(j - 1) :
        /\ events[a] = BlockStart("tool_use", i)
        /\ \A b \in (a + 1)..(j - 1) : events[b] # BlockStop(i)

\* events[j..k] is one thinking block at index i: its start, thinking deltas,
\* then signature deltas, then its stop
ThinkingBlock(j, k, i) ==
    /\ j < k
    /\ events[j] = BlockStart("thinking", i)
    /\ events[k] = BlockStop(i)
    /\ ~ToolOpenAt(j, i)
    /\ \A m \in (j + 1)..(k - 1) :
            IsThinkingDelta(events[m], i) \/ IsSignatureDelta(events[m], i)
    /\ \A m, n \in (j + 1)..(k - 1) :
            (m < n /\ IsSignatureDelta(events[m], i)) => IsSignatureDelta(events[n], i)

\* the concatenation of the payloads of the deltas of one kind in events[j..k]
RECURSIVE Payloads(_, _, _)
Payloads(deltaType, j, k) ==
    IF j > k
    THEN <<>>
    ELSE (IF events[j].type = "content_block_delta" /\ events[j].deltaType = deltaType
          THEN events[j].payload
          ELSE <<>>) \o Payloads(deltaType, j + 1, k)

OneContentChunk(out, content) ==
    /\ Len(out) = 1
    /\ "delta" \in DOMAIN out[1]
    /\ "content" \in DOMAIN out[1].delta
    /\ out[1].delta.content = content
    /\ "tool_calls" \notin DOMAIN out[1].delta

IsSignatureToken(tok) == tok \in {SIGA, SIGB}

HasSignatureToken(text) == \E n \in 1..Len(text) : IsSignatureToken(text[n])

ChunkLeaks(chunk) ==
    /\ "delta" \in DOMAIN chunk
    /\ \/ "content" \in DOMAIN chunk.delta /\ HasSignatureToken(chunk.delta.content)
       \/ /\ "tool_calls" \in DOMAIN chunk.delta
          /\ \E c \in 1..Len(chunk.delta.tool_calls) :
                 HasSignatureToken(chunk.delta.tool_calls[c].function.arguments)

\* C7: no chunk returned by the translator contains signature bytes: a
\* signature delta returns no chunk and is appended to the open accumulator of
\* its index, and no other chunk (the closing chunk included) carries them.
C7_SignatureNeverEmitted ==
    /\ \A m \in 1..Len(events) :
            /\ (events[m].type = "content_block_delta"
                    /\ events[m].deltaType = "signature_delta") => chunks[m] = <<>>
            /\ \A c \in 1..Len(chunks[m]) : ~ChunkLeaks(chunks[m][c])
    /\ (events # <<>> /\ ~parts.done) =>
            LET e == events[Len(events)]
            IN  (IsSignatureDelta(e, e.index) /\ e.index \in DOMAIN param.ThinkingAccumulator)
                    => LET sig == param.ThinkingAccumulator[e.index].Signature
                       IN  /\ Len(sig) >= Len(e.payload)
                           /\ SubSeq(sig, Len(sig) - Len(e.payload) + 1, Len(sig)) = e.payload

\* a thinking block that received a signature has been closed
C7_Witness ==
    \E j, k \in 1..Len(events) : \E i \in Indices :
        /\ ThinkingBlock(j, k, i)
        /\ IsSignatureDelta(events[k - 1], i)
        /\ chunks[k] # <<>>

\* the stream is exactly one thinking block, after an optional message_start
SingleBlockFrom(j) ==
    /\ \E i \in Indices : ThinkingBlock(j, Len(events), i)
    /\ j = 1 \/ (j = 2 /\ events[1] = MessageStart)

SingleBlock == events # <<>> /\ (SingleBlockFrom(1) \/ SingleBlockFrom(2))

StreamThinking == Payloads("thinking_delta", 1, Len(events))

StreamSignature == Payloads("signature_delta", 1, Len(events))

\* what the round trip is to reconstruct from thinking text, signature and the
\* ordinary text that follows (white space around the ordinary text aside)
RoundTripItems(T, S, rest) ==
    WithRemaining([type |-> "thinking", thinking |-> T, signature |-> S], TrimSpace(rest))

\* C1: round trip: a thinking block with text T and valid signature S, streamed
\* and then reverse-translated from the concatenation of the emitted content
\* (optionally followed by ordinary text), gives a thinking item with text
\* exactly T and signature exactly S, followed by the ordinary text alone.
C1_RoundTrip ==
    (parts.done /\ SingleBlock /\ HasValidSignature(StreamSignature))
        => parts.items = RoundTripItems(StreamThinking, StreamSignature, parts.rest)

\* C1 on the texts the code does round-trip: non-empty and free of the closing
\* delimiter and of the marker
C1_RoundTripPlainText ==
    (/\ parts.done
     /\ SingleBlock
     /\ HasValidSignature(StreamSignature)
     /\ StreamThinking # <<>>
     /\ \A n \in 1..Len(StreamThinking) : StreamThinking[n] \notin {CT, FENCE})
        => parts.items = RoundTripItems(StreamThinking, StreamSignature, parts.rest)

(***************************************************************************)
(* ConvertOpenAIRequestToClaude                                            *)
(***************************************************************************)
\* the effort table of the resolver: the budget of a level, ok = FALSE when
\* the level is unknown
ConvertLevelToBudget(effort) ==
    CASE effort = "none" -> [ok |-> TRUE, budget |-> 0]
      [] effort = "auto" -> [ok |-> TRUE, budget |-> -1]
      [] effort = "minimal" -> [ok |-> TRUE, budget |-> 512]
      [] effort = "low" -> [ok |-> TRUE, budget |-> 1024]
      [] effort = "medium" -> [ok |-> TRUE, budget |-> 8192]
      [] effort = "high" -> [ok |-> TRUE, budget |-> 24576]
      [] effort = "xhigh" -> [ok |-> TRUE, budget |-> 32768]
      [] OTHER -> [ok |-> FALSE, budget |-> 0]

\* the request template, then reasoning_effort turned into a thinking object
WithReasoningEffort(out, root) ==
    IF ~root.hasReasoningEffort \/ root.reasoning_effort = ""
    THEN out
    ELSE LET c == ConvertLevelToBudget(root.reasoning_effort)
         IN  IF ~c.ok
             THEN out
             ELSE IF c.budget = 0
             THEN MapPut(out, "thinking", [type |-> "disabled"])
             ELSE IF c.budget = -1
             THEN MapPut(out, "thinking", [type |-> "enabled"])
             ELSE IF c.budget > 0
             THEN MapPut(out, "thinking", [type |-> "enabled", budget_tokens |-> c.budget])
             ELSE out

ThinkingType(out) == IF "thinking" \in DOMAIN out THEN out.thinking.type ELSE ""

\* temperature is forced to 1 while thinking is enabled
WithTemperature(out, root) ==
    IF ThinkingType(out) = "enabled"
    THEN MapPut(out, "temperature", 1)
    ELSE IF root.hasTemperature
    THEN MapPut(out, "temperature", root.temperature)
    ELSE out

\* one part of an array content, translated
ConvertPart(part, cache, t) ==
    CASE part.type = "text" ->
            extractThinkingFromContent(part.text, cache, t)
      [] part.type = "tool_use" ->
            [parts |-> <<[type |-> "tool_use", id |-> part.id, name |-> part.name,
                          input |-> part.input]>>,
             cache |-> cache]
      [] part.type = "tool_result" ->
            [parts |-> <<[type |-> "tool_result", tool_use_id |-> part.tool_use_id,
                          content |-> part.content]>>,
             cache |-> cache]

\* the items of a part put in front of the items of the parts after it
Before(h, r) == [parts |-> h.parts \o r.parts, cache |-> r.cache]

RECURSIVE ConvertParts(_, _, _)
RECURSIVE ConvertRest(_, _, _)
ConvertRest(h, partList, t) == Before(h, ConvertParts(partList, h.cache, t))

ConvertParts(partList, cache, t) ==
    IF partList = <<>>
    THEN [parts |-> <<>>, cache |-> cache]
    ELSE ConvertRest(ConvertPart(Head(partList), cache, t), Tail(partList), t)

\* the content of a user or assistant message: a string, an array, or neither
ConvertContent(message, cache, t) ==
    IF message.contentKind = "string" /\ message.text # <<>>
    THEN extractThinkingFromContent(message.text, cache, t)
    ELSE IF message.contentKind = "array"
    THEN ConvertParts(message.parts, cache, t)
    ELSE [parts |-> <<>>, cache |-> cache]

\* the tool_use item of one entry of tool_calls
ToolUseOf(toolCall) ==
    [type |-> "tool_use", id |-> toolCall.id, name |-> toolCall.name,
     input |-> IF toolCall.hasArguments /\ toolCall.arguments # "" /\ toolCall.argumentsAreObject
               THEN toolCall.arguments
               ELSE "{}"]

RECURSIVE ToolUses(_)
ToolUses(toolCalls) ==
    IF toolCalls = <<>>
    THEN <<>>
    ELSE (IF Head(toolCalls).type = "function" THEN <<ToolUseOf(Head(toolCalls))>> ELSE <<>>)
            \o ToolUses(Tail(toolCalls))

\* a user or assistant message appended: its content c, then its tool calls
WithMessage(acc, message, c) ==
    [acc EXCEPT !.messages =
                    Append(@, [role |-> message.role,
                               content |-> c.parts \o
                                    (IF message.role = "assistant" /\ message.hasToolCalls
                                     THEN ToolUses(message.tool_calls)
                                     ELSE <<>>)]),
                !.cache = c.cache]

\* the text items a system message adds to the message that collects them:
\* a non-empty string, or every text part of an array, the empty ones too
IsTextPart(part) == part.type = "text"

SystemTextParts(message) ==
    IF message.contentKind = "string" /\ message.text # <<>>
    THEN <<TextPart(message.text)>>
    ELSE IF message.contentKind = "array"
    THEN [i \in 1..Len(SelectSeq(message.parts, IsTextPart)) |->
            TextPart(SelectSeq(message.parts, IsTextPart)[i].text)]
    ELSE <<>>

\* the messages loop: acc holds the messages built so far, the position of the
\* message that collects the system texts (0 = none yet) and the cache
RECURSIVE ConvertMessages(_, _, _)
ConvertMessages(messageList, acc, t) ==
    IF messageList = <<>>
    THEN acc
    ELSE LET message == Head(messageList)
             role == message.role
         IN  CASE role = "system" ->
                    LET opened == IF acc.systemMessageIndex = 0
                                  THEN [acc EXCEPT !.messages =
                                            Append(@, [role |-> "user", content |-> <<>>]),
                                        !.systemMessageIndex = Len(acc.messages) + 1]
                                  ELSE acc
                        added == SystemTextParts(message)
                    IN  ConvertMessages(Tail(messageList),
                            [opened EXCEPT !.messages[opened.systemMessageIndex].content =
                                                @ \o added],
                            t)
               [] role \in {"user", "assistant"} ->
                    ConvertMessages(Tail(messageList),
                        WithMessage(acc, message, ConvertContent(message, acc.cache, t)),
                        t)
               [] role = "tool" ->
                    ConvertMessages(Tail(messageList),
                        [acc EXCEPT !.messages =
                            Append(@, [role |-> "user",
                                       content |-> <<[type |-> "tool_result",
                                                      tool_use_id |-> message.tool_call_id,
                                                      content |-> message.text]>>])],
                        t)
               [] OTHER -> ConvertMessages(Tail(messageList), acc, t)

\* the position of the last (first) message with the role, 0 when there is none
LastWithRole(messages, role) ==
    LET c == {i \in 1..Len(messages) : messages[i].role = role}
    IN  IF c = {} THEN 0 ELSE CHOOSE i \in c : \A k \in c : k <= i

FirstWithRole(messages, role) ==
    LET c == {i \in 1..Len(messages) : messages[i].role = role}
    IN  IF c = {} THEN 0 ELSE Min(c)

\* a repair that gives the assistant message an empty thinking block
ensureAssistantThinkingBlock_AddEmptyBlock(requestJSON) ==
    LET idx == LastWithRole(requestJSON.messages, "assistant")
    IN  IF ThinkingType(requestJSON) # "enabled" \/ idx = 0
        THEN requestJSON
        ELSE IF requestJSON.messages[idx].content = <<>>
        THEN requestJSON
        ELSE IF requestJSON.messages[idx].content[1].type \in {"thinking", "redacted_thinking"}
        THEN requestJSON
        ELSE [requestJSON EXCEPT !.messages[idx].content =
                    <<[type |-> "thinking", thinking |-> <<>>]>> \o @]

ensureAssistantThinkingBlock(requestJSON) ==
    LET messages == requestJSON.messages
        lastAssistantIdx == LastWithRole(messages, "assistant")
    IN  IF ThinkingType(requestJSON) # "enabled"
        THEN requestJSON
        ELSE IF Len(messages) = 0
        THEN requestJSON
        ELSE IF lastAssistantIdx = 0
        THEN requestJSON
        ELSE IF Len(messages[lastAssistantIdx].content) = 0
        THEN requestJSON
        ELSE IF messages[lastAssistantIdx].content[1].type \in {"thinking", "redacted_thinking"}
        THEN requestJSON
        ELSE MapDelete(requestJSON, "thinking")

cacheControl == [type |-> "ephemeral"]
maxBreakpoints == 4

\* cache_control on the last content item of message idx, when it has one
MarkLastContent(marks, idx) ==
    IF Len(marks.json.messages[idx].content) > 0
    THEN [json |-> [marks.json EXCEPT
                        !.messages[idx].content[Len(marks.json.messages[idx].content)] =
                            MapPut(@, "cache_control", cacheControl)],
          breakpointsUsed |-> marks.breakpointsUsed + 1]
    ELSE marks

\* breakpoint 1: the last block of a system array
MarkSystem(marks) ==
    IF /\ "system" \in DOMAIN marks.json
       /\ marks.json.system.kind = "array"
       /\ Len(marks.json.system.blocks) > 0
       /\ marks.breakpointsUsed < maxBreakpoints
    THEN [json |-> [marks.json EXCEPT
                        !.system.blocks[Len(marks.json.system.blocks)] =
                            MapPut(@, "cache_control", cacheControl)],
          breakpointsUsed |-> marks.breakpointsUsed + 1]
    ELSE marks

\* breakpoint 2: the last tool
MarkTools(marks) ==
    IF /\ "tools" \in DOMAIN marks.json
       /\ Len(marks.json.tools) > 0
       /\ marks.breakpointsUsed < maxBreakpoints
    THEN [json |-> [marks.json EXCEPT
                        !.tools[Len(marks.json.tools)] =
                            MapPut(@, "cache_control", cacheControl)],
          breakpointsUsed |-> marks.breakpointsUsed + 1]
    ELSE marks

\* breakpoint 3: the last user message
MarkLastUser(marks) ==
    IF LastWithRole(marks.json.messages, "user") > 0 /\ marks.breakpointsUsed < maxBreakpoints
    THEN MarkLastContent(marks, LastWithRole(marks.json.messages, "user"))
    ELSE marks

\* breakpoint 4: the first user message, when it is another message
MarkFirstUser(marks) ==
    IF /\ marks.breakpointsUsed < maxBreakpoints
       /\ Len(marks.json.messages) > 2
       /\ FirstWithRole(marks.json.messages, "user") > 0
       /\ FirstWithRole(marks.json.messages, "user") # LastWithRole(marks.json.messages, "user")
    THEN MarkLastContent(marks, FirstWithRole(marks.json.messages, "user"))
    ELSE marks

MarkMessages(marks) ==
    IF Len(marks.json.messages) > 0 /\ marks.breakpointsUsed < maxBreakpoints
    THEN MarkFirstUser(MarkLastUser(marks))
    ELSE marks

\* applyCacheControlMarkers of the request translator: system, tools, then the
\* last and the first user message
applyCacheControlMarkers(requestJSON) ==
    MarkMessages(MarkTools(MarkSystem([json |-> requestJSON, breakpointsUsed |-> 0]))).json

\* the system field of the client goes out as it came
WithSystem(out, root) ==
    IF root.system.kind # "none" THEN MapPut(out, "system", root.system) ELSE out

(***************************************************************************)
(* applyCacheControlMarkers in its own file                                *)
(***************************************************************************)
\* an item that can carry cache_control: no thinking block, no empty text
Cacheable(item) ==
    /\ item.type \notin {"thinking", "redacted_thinking"}
    /\ ~(item.type = "text" /\ item.text = <<>>)

\* the position of the last item that can carry cache_control, 0 for none
findLastCacheableContentIdx(contentArray) ==
    LET c == {i \in 1..Len(contentArray) : Cacheable(contentArray[i])}
    IN  IF c = {} THEN 0 ELSE CHOOSE i \in c : \A k \in c : k <= i

MarkCacheableContent(marks, idx) ==
    IF findLastCacheableContentIdx(marks.json.messages[idx].content) > 0
    THEN [json |-> [marks.json EXCEPT
                        !.messages[idx].content[
                            findLastCacheableContentIdx(marks.json.messages[idx].content)] =
                                MapPut(@, "cache_control", cacheControl)],
          breakpointsUsed |-> marks.breakpointsUsed + 1]
    ELSE marks

\* breakpoint 2: the last block of a system array that has content, or a
\* system string turned into an array of one marked block
MarkSystemBlock(marks) ==
    IF "system" \notin DOMAIN marks.json \/ marks.breakpointsUsed >= maxBreakpoints
    THEN marks
    ELSE IF marks.json.system.kind = "array"
    THEN IF findLastCacheableContentIdx(marks.json.system.blocks) > 0
         THEN [json |-> [marks.json EXCEPT
                            !.system.blocks[
                                findLastCacheableContentIdx(marks.json.system.blocks)] =
                                    MapPut(@, "cache_control", cacheControl)],
               breakpointsUsed |-> marks.breakpointsUsed + 1]
         ELSE marks
    ELSE IF marks.json.system.kind = "string" /\ marks.json.system.text # <<>>
    THEN [json |-> [marks.json EXCEPT
                        !.system = [kind |-> "array", text |-> <<>>,
                                    blocks |-> <<MapPut(TextPart(marks.json.system.text),
                                                        "cache_control", cacheControl)>>]],
          breakpointsUsed |-> marks.breakpointsUsed + 1]
    ELSE marks

MarkLastUserCacheable(marks) ==
    IF LastWithRole(marks.json.messages, "user") > 0 /\ marks.breakpointsUsed < maxBreakpoints
    THEN MarkCacheableContent(marks, LastWithRole(marks.json.messages, "user"))
    ELSE marks

MarkFirstUserCacheable(marks) ==
    IF /\ marks.breakpointsUsed < maxBreakpoints
       /\ Len(marks.json.messages) > 2
       /\ FirstWithRole(marks.json.messages, "user") > 0
       /\ FirstWithRole(marks.json.messages, "user") # LastWithRole(marks.json.messages, "user")
    THEN MarkCacheableContent(marks, FirstWithRole(marks.json.messages, "user"))
    ELSE marks

MarkMessagesCacheable(marks) ==
    IF Len(marks.json.messages) > 0 /\ marks.breakpointsUsed < maxBreakpoints
    THEN MarkFirstUserCacheable(MarkLastUserCacheable(marks))
    ELSE marks

\* applyCacheControlMarkers of the file that holds only this function: tools,
\* system, then the last and the first user message
applyCacheControlMarkersOwnFile(requestJSON) ==
    MarkMessagesCacheable(
        MarkSystemBlock(MarkTools([json |-> requestJSON, breakpointsUsed |-> 0]))).json

\* the template with the model, the thinking object, the temperature, stream
\* and system
RequestHead(root, stream) ==
    WithSystem(MapPut(WithTemperature(
                          WithReasoningEffort([model |-> modelName, max_tokens |-> 64000,
                                               messages |-> <<>>,
                                               metadata |-> [user_id |-> "user_account_session"]],
                                              root),
                          root),
                      "stream", stream),
               root)

\* a tool of the client is mapped when its type is "function" or when it has
\* no type
IsAnthropicTool(tool) == ~tool.hasType \/ tool.type = "function"

\* the tools array: absent when the client has no tool that is mapped
WithTools(out, root) ==
    IF SelectSeq(root.tools, IsAnthropicTool) = <<>>
    THEN out
    ELSE MapPut(out, "tools",
                [i \in 1..Len(SelectSeq(root.tools, IsAnthropicTool)) |->
                    [name |-> SelectSeq(root.tools, IsAnthropicTool)[i].name]])

WithMessages(out, m) ==
    [out |-> [out EXCEPT !.messages = m.messages], cache |-> m.cache]

\* the request before the repair of the assistant message
BuildClaudeRequest(root, stream, cache, t) ==
    WithMessages(RequestHead(root, stream),
                 ConvertMessages(root.messages,
                                 [messages |-> <<>>, systemMessageIndex |-> 0,
                                  cache |-> cache],
                                 t))

\* the repair of the assistant message, then the cache_control marks
Finish(b, root) ==
    [out |-> applyCacheControlMarkers(ensureAssistantThinkingBlock(WithTools(b.out, root))),
     cache |-> b.cache,
     unmarked |-> ensureAssistantThinkingBlock(WithTools(b.out, root))]

\* the Claude request and the thinking cache after the call
ConvertOpenAIRequestToClaude(root, stream, cache, t) ==
    Finish(BuildClaudeRequest(root, stream, cache, t), root)

(***************************************************************************)
(* Specification of the request translator                                 *)
(***************************************************************************)
Msg(role, kind, text, partList, toolCalls) ==
    [role |-> role, contentKind |-> kind, text |-> text, parts |-> partList,
     hasToolCalls |-> toolCalls # <<>>, tool_calls |-> toolCalls,
     tool_call_id |-> "call_1"]

\* the texts a client sends back
ThinkPair(inner) == <<OT>> \o inner \o <<CT>>
Marker(id) == <<FENCE, TAGID>> \o id \o <<FENCE>>
Full(inner, id, rest) == ThinkPair(inner) \o <<NL>> \o Marker(id) \o <<NL>> \o rest
MarkerOnly(id, rest) == Marker(id) \o <<NL>> \o rest

StoredTexts == {<<"x">>}
StoredSigs == {<<>>, <<SIGA>>, <<SIGA, SIGB>>}
StoredID == GenerateThinkingID(<<"x">>)
OtherID == GenerateThinkingID(<<"y">>)
MarkerIDs == {StoredID, OtherID}
Inners == {<<NL, "x", NL>>, <<SP, "y", ESCFENCE, NL>>}
Rests == {<<>>, <<NL, "y", SP>>}

PlainText == <<"y">>
TwoMarkers == Full(<<NL, "y", NL>>, OtherID, <<>>) \o Full(<<NL, "x", NL>>, StoredID, <<"y">>)

AssistantTexts ==
    {Full(inner, id, rest) : inner \in Inners, id \in MarkerIDs, rest \in Rests}
        \cup {MarkerOnly(id, rest) : id \in MarkerIDs, rest \in Rests}
        \cup {PlainText, TwoMarkers, <<>>}

ToolCall == [type |-> "function", id |-> "call_1", name |-> "search",
             hasArguments |-> TRUE, arguments |-> "{q}", argumentsAreObject |-> TRUE]
ToolUsePart == [type |-> "tool_use", id |-> "call_1", name |-> "search", input |-> "{q}"]
TextIn(text) == [type |-> "text", text |-> text]

AssistantMessages ==
    {Msg("assistant", "string", text, <<>>, <<>>) : text \in AssistantTexts}
        \cup {Msg("assistant", "string", text, <<>>, <<ToolCall>>) :
                text \in {PlainText, Full(<<NL, "x", NL>>, StoredID, <<NL, "y", SP>>)}}
        \cup {Msg("assistant", "none", <<>>, <<>>, <<ToolCall>>)}
        \cup {Msg("assistant", "array", <<>>, partList, <<>>) :
                partList \in {<<TextIn(PlainText), ToolUsePart>>,
                              <<ToolUsePart>>,
                              <<TextIn(Full(<<NL, "x", NL>>, StoredID, <<NL, "y", SP>>))>>,
                              <<TextIn(PlainText),
                                TextIn(Full(<<NL, "x", NL>>, StoredID, <<>>))>>}}

UserMessage == Msg("user", "string", <<"x">>, <<>>, <<>>)
SystemMessage == Msg("system", "string", <<"y">>, <<>>, <<>>)
ToolMessage == Msg("tool", "string", <<"x">>, <<>>, <<>>)

\* the assistant messages that also appear in the longer conversations
LongerWith ==
    {Msg("assistant", "string", text, <<>>, <<>>) :
        text \in {PlainText, TwoMarkers,
                  Full(<<SP, "y", ESCFENCE, NL>>, StoredID, <<NL, "y", SP>>),
                  MarkerOnly(StoredID, <<NL, "y", SP>>)}}
        \cup {Msg("assistant", "array", <<>>, <<TextIn(PlainText), ToolUsePart>>, <<>>)}

Conversations ==
    {<<UserMessage>>}
        \cup {<<UserMessage, a>> : a \in AssistantMessages}
        \cup {<<UserMessage, a, UserMessage>> : a \in LongerWith}
        \cup {<<SystemMessage, UserMessage, a, ToolMessage>> : a \in LongerWith}

Efforts == {"high", "auto", "none", "bogus"}

NoSystem == [kind |-> "none", text |-> <<>>, blocks |-> <<>>]

\* the system field of a client: absent, a string, or an array of blocks
Systems ==
    {NoSystem,
     [kind |-> "string", text |-> <<"y">>, blocks |-> <<>>],
     [kind |-> "array", text |-> <<>>, blocks |-> <<TextIn(<<"y">>)>>],
     [kind |-> "array", text |-> <<>>, blocks |-> <<TextIn(<<"y">>), TextIn(<<>>)>>],
     [kind |-> "array", text |-> <<>>, blocks |-> <<>>]}

FunctionTool == [hasType |-> TRUE, type |-> "function", name |-> "search"]
CursorTool == [hasType |-> FALSE, type |-> "", name |-> "edit"]
OtherTool == [hasType |-> TRUE, type |-> "retrieval", name |-> "files"]

ToolLists == {<<>>, <<FunctionTool>>, <<FunctionTool, OtherTool, CursorTool>>, <<OtherTool>>}

\* a user sends a text back with its think pair and marker; a system message
\* made of text parts, the last one empty
UserWithThinking == Msg("user", "string", Full(<<NL, "x", NL>>, StoredID, <<>>), <<>>, <<>>)
UserWithParts ==
    Msg("user", "array", <<>>, <<TextIn(<<"x">>), TextIn(MarkerOnly(StoredID, <<>>))>>, <<>>)
SystemParts == Msg("system", "array", <<>>, <<TextIn(<<"y">>), TextIn(<<>>)>>, <<>>)
PlainAssistant == Msg("assistant", "string", PlainText, <<>>, <<>>)

\* the conversations of the requests that carry a system field and tools
MarkedConversations ==
    {<<UserMessage>>,
     <<UserMessage, PlainAssistant, UserMessage>>,
     <<UserWithThinking, PlainAssistant, UserMessage>>,
     <<UserMessage, PlainAssistant, UserWithParts>>,
     <<SystemParts, UserMessage>>,
     <<SystemParts, UserMessage, PlainAssistant, ToolMessage>>}

Requests ==
    {[hasReasoningEffort |-> TRUE, reasoning_effort |-> e,
      hasTemperature |-> FALSE, temperature |-> 0, messages |-> c,
      system |-> NoSystem, tools |-> <<>>] :
        e \in Efforts, c \in Conversations}
    \cup {[hasReasoningEffort |-> FALSE, reasoning_effort |-> "",
           hasTemperature |-> h, temperature |-> 0, messages |-> c,
           system |-> NoSystem, tools |-> <<>>] :
        h \in BOOLEAN, c \in Conversations}
    \cup {[hasReasoningEffort |-> FALSE, reasoning_effort |-> "",
           hasTemperature |-> FALSE, temperature |-> 0, messages |-> c,
           system |-> sys, tools |-> toolList] :
        c \in MarkedConversations, sys \in Systems, toolList \in ToolLists}

\* a request is on its way; the cache is empty
InitRequest ==
    /\ now = 0
    /\ thinkingCache = << >>
    /\ CacheIdle
    /\ StreamIdle
    /\ request \in {[root |-> root, converted |-> FALSE] : root \in Requests}
    /\ claudeRequest = << >>
    /\ ApplyIdle
    /\ AliasIdle
    /\ AuxIdle

\* a thinking block closes in some response: its text is cached under its hash
StoreThinking(text, signature) ==
    /\ ~request.converted
    /\ thinkingCache' = CacheThinking(thinkingCache, GenerateThinkingID(text),
                                      text, signature, now)
    /\ UNCHANGED <<now, signatureCache, cacheRes, lastPut, lastTouch>>
    /\ UNCHANGED <<streamVars, requestVars, applyVars, aliasVars, auxVars>>

\* the outcome r of the conversion is kept, with the cache and the time it saw
Converts(r) ==
    /\ request' = [root |-> request.root, converted |-> TRUE,
                   cacheBefore |-> thinkingCache, at |-> now,
                   unmarked |-> r.unmarked,
                   ownFile |-> applyCacheControlMarkersOwnFile(r.unmarked)]
    /\ claudeRequest' = r.out
    /\ thinkingCache' = r.cache

\* the chat-completions request arrives and is converted
Convert ==
    /\ ~request.converted
    /\ Converts(ConvertOpenAIRequestToClaude(request.root, TRUE, thinkingCache, now))
    /\ UNCHANGED <<now, signatureCache, cacheRes, lastPut, lastTouch>>
    /\ UNCHANGED <<streamVars, applyVars, aliasVars, auxVars>>

NextRequest ==
    \/ Tick
    \/ \E text \in StoredTexts, signature \in StoredSigs : StoreThinking(text, signature)
    \/ Convert

SpecRequest == InitRequest /\ [][NextRequest]_vars

(***************************************************************************)
(* Properties of the request translator                                    *)
(***************************************************************************)
Converted == request.converted

\* the entry under id can be restored at time t
Usable(cache, id, t) ==
    /\ id \in DOMAIN cache
    /\ t - cache[id].Timestamp <= ThinkingCacheTTL
    /\ cache[id].Signature # <<>>
    /\ ByteLen(cache[id].Signature) >= MinValidSignatureLen

EnabledByEffort(root) ==
    root.hasReasoningEffort /\ root.reasoning_effort \in {"high", "auto"}

\* the positions of the user and assistant messages with a string content
StringMessages(root) ==
    {i \in 1..Len(root.messages) :
        /\ root.messages[i].role \in {"user", "assistant"}
        /\ root.messages[i].contentKind = "string"}

ItemTypes(content) == {content[k].type : k \in 1..Len(content)}

Signatures(content) ==
    {content[k].signature : k \in {j \in 1..Len(content) : "signature" \in DOMAIN content[j]}}

\* the content without the cache_control marks
Unmarked(content) ==
    [k \in 1..Len(content) |->
        IF "cache_control" \in DOMAIN content[k]
        THEN MapDelete(content[k], "cache_control")
        ELSE content[k]]

RestItems(rest) == IF TrimSpace(rest) = <<>> THEN <<>> ELSE <<TextPart(TrimSpace(rest))>>

ToolItems(message) ==
    IF message.hasToolCalls
    THEN <<[type |-> "tool_use", id |-> "call_1", name |-> "search", input |-> "{q}"]>>
    ELSE <<>>

\* C5 as written: with an unusable marker the thinking item carries the text
\* between the delimiters as it stands
C5_FallbackLiteralText ==
    Converted =>
        \A i \in StringMessages(request.root) :
            \A inner \in Inners, id \in MarkerIDs, rest \in Rests :
                (/\ request.root.messages[i].text = Full(inner, id, rest)
                 /\ ~Usable(request.cacheBefore, id, request.at))
                    => /\ claudeRequest.messages[i].content # <<>>
                       /\ Unmarked(claudeRequest.messages[i].content)[1] =
                            [type |-> "thinking", thinking |-> inner]

\* C5: with a marker that is not cached, has expired or has an invalid
\* signature, a text with a think pair gives an unsigned thinking item whose
\* text is the enclosed text with the escaped fences restored and the outer
\* whitespace trimmed, then the remaining text; a text without a think pair
\* gives no thinking item; the cached signature is not emitted
C5_Fallback ==
    Converted =>
        \A i \in StringMessages(request.root) :
            \A id \in MarkerIDs, rest \in Rests :
                LET message == request.root.messages[i]
                    content == Unmarked(claudeRequest.messages[i].content)
                IN  ~Usable(request.cacheBefore, id, request.at) =>
                        /\ \A inner \in Inners :
                              message.text = Full(inner, id, rest) =>
                                 content =
                                    <<[type |-> "thinking",
                                       thinking |-> TrimSpace(UnescapeFence(inner))]>>
                                        \o RestItems(rest) \o ToolItems(message)
                        /\ message.text = MarkerOnly(id, rest) =>
                              content = RestItems(rest) \o ToolItems(message)
                        /\ message.text \in {MarkerOnly(id, rest)}
                                \cup {Full(inner, id, rest) : inner \in Inners} =>
                              Signatures(content) = {}

\* a fallback over an entry that is cached with a short signature, over an
\* expired entry and over an identifier that was never cached
C5_Case(id, cachedSoLong) ==
    /\ Converted
    /\ \E i \in StringMessages(request.root) :
          /\ request.root.messages[i].text = Full(<<SP, "y", ESCFENCE, NL>>, id, <<NL, "y", SP>>)
          /\ Unmarked(claudeRequest.messages[i].content) =
                <<[type |-> "thinking", thinking |-> <<"y", FENCE>>], TextPart(<<"y">>)>>
    /\ cachedSoLong

C5_Witness ==
    C5_Case(StoredID,
            /\ StoredID \in DOMAIN request.cacheBefore
            /\ request.cacheBefore[StoredID].Signature = <<SIGA>>
            /\ request.at - request.cacheBefore[StoredID].Timestamp <= ThinkingCacheTTL)

C5_WitnessExpired ==
    C5_Case(StoredID,
            /\ StoredID \in DOMAIN request.cacheBefore
            /\ request.cacheBefore[StoredID].Signature = <<SIGA, SIGB>>
            /\ request.at - request.cacheBefore[StoredID].Timestamp > ThinkingCacheTTL)

C5_WitnessNeverCached ==
    C5_Case(OtherID, StoredID \in DOMAIN request.cacheBefore)

\* the request before the repair of the final assistant message
Translated == BuildClaudeRequest(request.root, TRUE, request.cacheBefore, request.at).out

LastAssistant(messages) == LastWithRole(messages, "assistant")

StrippedFrom(translated, idx) ==
    (/\ ThinkingType(translated) = "enabled"
     /\ idx > 0
     /\ translated.messages[idx].content # <<>>
     /\ translated.messages[idx].content[1].type \in {"text", "tool_use"})
        => /\ "thinking" \notin DOMAIN claudeRequest
           /\ Len(claudeRequest.messages) = Len(translated.messages)
           /\ claudeRequest.messages[idx] = translated.messages[idx]
           /\ claudeRequest.messages[idx].content[1].type \in {"text", "tool_use"}

\* C8: when the translated request has thinking enabled and its last assistant
\* message starts with a text or tool_use item, the outbound request has no
\* thinking object and the assistant message is the translated one, with no
\* thinking item added
C8_StripThinking ==
    Converted => StrippedFrom(Translated, LastAssistant(Translated.messages))

\* the scenario of the test: a text item and a tool_use item, effort high
C8_Witness ==
    /\ Converted
    /\ request.root.reasoning_effort = "high"
    /\ LastAssistant(request.root.messages) > 0
    /\ request.root.messages[LastAssistant(request.root.messages)].parts =
            <<TextIn(PlainText), ToolUsePart>>
    /\ "thinking" \notin DOMAIN claudeRequest
    /\ claudeRequest.messages[LastAssistant(claudeRequest.messages)].content =
            <<TextPart(PlainText), ToolUsePart>>

\* the texts of a message: its string content or its text parts
MessageTexts(message) ==
    IF message.contentKind = "string"
    THEN {message.text}
    ELSE IF message.contentKind = "array"
    THEN {message.parts[k].text :
            k \in {j \in 1..Len(message.parts) : message.parts[j].type = "text"}}
    ELSE {}

HasMarker(text, id) ==
    \E p \in 1..Len(text) :
        thinkIdAt(text, p) /\ SubSeq(text, p + 2, HexRunEnd(text, p + 2) - 1) = id

ModeBudget == "budget"
ModeLevel == "level"
ModeNone == "none"
ModeAuto == "auto"

\* ThinkingConfig{}: the zero value
EmptyConfig == [Mode |-> ModeBudget, Budget |-> 0, Level |-> "", Effort |-> "", Speed |-> ""]

\* strings.ToLower on a word
Lower(word) ==
    CASE word = "FAST" -> "fast"
      [] word = "Max" -> "max"
      [] word = "AUTO" -> "auto"
      [] word = "High" -> "high"
      [] word = "Claude" -> "claude"
      [] word = "Claude-4.5-Sonnet" -> "claude-4.5-sonnet"
      [] word = "Claude-Sonnet-4-5" -> "claude-sonnet-4-5"
      [] word = "My-Alias" -> "my-alias"
      [] word = "-Thinking" -> "-thinking"
      [] OTHER -> word

\* the string of a run of tokens: a single word, the empty string, or a
\* string that is no keyword and no number
WordOf(tokens) ==
    IF tokens = <<>> THEN "" ELSE IF Len(tokens) = 1 THEN tokens[1] ELSE "?"

Range(seq) == {seq[i] : i \in 1..Len(seq)}

\* the suffix grammar base(token): the name splits at its last "("
ParseSuffix(model) ==
    LET opens == {i \in 1..Len(model) : model[i] = "("}
    IN  IF opens = {} \/ model[Len(model)] # ")"
        THEN [ModelName |-> WordOf(model), HasSuffix |-> FALSE, RawSuffix |-> <<>>]
        ELSE LET lastOpen == CHOOSE i \in opens : \A k \in opens : k <= i
             IN  [ModelName |-> WordOf(SubSeq(model, 1, lastOpen - 1)),
                  HasSuffix |-> TRUE,
                  RawSuffix |-> SubSeq(model, lastOpen + 1, Len(model) - 1)]

ParseSpecialSuffix(rawSuffix) ==
    CASE Lower(rawSuffix) = "none" -> [ok |-> TRUE, mode |-> ModeNone]
      [] Lower(rawSuffix) \in {"auto", "-1"} -> [ok |-> TRUE, mode |-> ModeAuto]
      [] OTHER -> [ok |-> FALSE, mode |-> ModeBudget]

ParseLevelSuffix(rawSuffix) ==
    IF Lower(rawSuffix) \in {"minimal", "low", "medium", "high", "xhigh"}
    THEN [ok |-> TRUE, level |-> Lower(rawSuffix)]
    ELSE [ok |-> FALSE, level |-> ""]

\* the non-negative integers among the suffix words
ParseNumericSuffix(rawSuffix) ==
    CASE rawSuffix = "0" -> [ok |-> TRUE, budget |-> 0]
      [] rawSuffix = "512" -> [ok |-> TRUE, budget |-> 512]
      [] rawSuffix = "8192" -> [ok |-> TRUE, budget |-> 8192]
      [] rawSuffix = "128100" -> [ok |-> TRUE, budget |-> 128100]
      [] rawSuffix = "200000" -> [ok |-> TRUE, budget |-> 200000]
      [] OTHER -> [ok |-> FALSE, budget |-> 0]

isSpeedSuffix(rawSuffix) == Lower(rawSuffix) = "fast"

isEffortOnlySuffix(rawSuffix) == Lower(rawSuffix) = "max"

\* a merge in which a level name sets Mode=Level, as it does on its own
MergePart_LevelAsMode(config, tokens) ==
    LET part == Lower(WordOf(TrimSpace(tokens)))
    IN  IF ParseLevelSuffix(part).ok
        THEN [config EXCEPT !.Mode = ModeLevel, !.Level = ParseLevelSuffix(part).level]
        ELSE IF isSpeedSuffix(part)
        THEN [config EXCEPT !.Speed = part]
        ELSE config

\* one half of a compound suffix merged into the configuration
MergePart(config, tokens) ==
    LET part == Lower(WordOf(TrimSpace(tokens)))
    IN  IF part = ""
        THEN config
        ELSE IF ParseSpecialSuffix(part).ok
        THEN IF ParseSpecialSuffix(part).mode = ModeNone
             THEN [config EXCEPT !.Mode = ModeNone, !.Budget = 0]
             ELSE [config EXCEPT !.Mode = ModeAuto, !.Budget = -1]
        ELSE IF isSpeedSuffix(part)
        THEN [config EXCEPT !.Speed = part]
        ELSE IF isEffortOnlySuffix(part)
        THEN [config EXCEPT !.Effort = part]
        ELSE IF ParseLevelSuffix(part).ok
        THEN [config EXCEPT !.Effort = ParseLevelSuffix(part).level]
        ELSE IF ParseNumericSuffix(part).ok
        THEN [config EXCEPT !.Mode = ModeBudget, !.Budget = ParseNumericSuffix(part).budget]
        ELSE config

\* strings.SplitN(rawSuffix, "+", 2), then the two halves in order
parseCompoundSuffix(rawSuffix) ==
    LET plus == Min({i \in 1..Len(rawSuffix) : rawSuffix[i] = "+"})
    IN  MergePart(MergePart(EmptyConfig, SubSeq(rawSuffix, 1, plus - 1)),
                  SubSeq(rawSuffix, plus + 1, Len(rawSuffix)))

\* a dispatch that knows the level names only
parseSingleSuffix_LevelsOnly(word) ==
    IF ParseLevelSuffix(word).ok
    THEN [EmptyConfig EXCEPT !.Mode = ModeLevel, !.Level = ParseLevelSuffix(word).level]
    ELSE EmptyConfig

\* a suffix without "+"
parseSingleSuffix(word) ==
    IF ParseSpecialSuffix(word).ok
    THEN IF ParseSpecialSuffix(word).mode = ModeNone
         THEN [EmptyConfig EXCEPT !.Mode = ModeNone, !.Budget = 0]
         ELSE [EmptyConfig EXCEPT !.Mode = ModeAuto, !.Budget = -1]
    ELSE IF isSpeedSuffix(word)
    THEN [EmptyConfig EXCEPT !.Speed = Lower(word)]
    ELSE IF isEffortOnlySuffix(word)
    THEN [EmptyConfig EXCEPT !.Effort = Lower(word)]
    ELSE IF ParseLevelSuffix(word).ok
    THEN [EmptyConfig EXCEPT !.Mode = ModeLevel, !.Level = ParseLevelSuffix(word).level]
    ELSE IF ParseNumericSuffix(word).ok
    THEN IF ParseNumericSuffix(word).budget = 0
         THEN [EmptyConfig EXCEPT !.Mode = ModeNone, !.Budget = 0]
         ELSE [EmptyConfig EXCEPT !.Mode = ModeBudget,
                                  !.Budget = ParseNumericSuffix(word).budget]
    ELSE EmptyConfig

parseSuffixToConfig(rawSuffix) ==
    IF "+" \in Range(rawSuffix)
    THEN parseCompoundSuffix(rawSuffix)
    ELSE parseSingleSuffix(WordOf(rawSuffix))

isEffortOnlyConfig(config) ==
    config.Effort # "" /\ config.Mode = ModeBudget /\ config.Budget = 0 /\ config.Level = ""

isSpeedOnlyConfig(config) ==
    /\ config.Speed # ""
    /\ config.Effort = ""
    /\ config.Mode = ModeBudget
    /\ config.Budget = 0
    /\ config.Level = ""

hasThinkingConfig(config) ==
    \/ config.Mode # ModeBudget
    \/ config.Budget # 0
    \/ config.Level # ""
    \/ config.Effort # ""
    \/ config.Speed # ""

\* a body that is empty or is not JSON
InvalidBody == [invalid |-> TRUE]

\* len(body) > 0 && gjson.ValidBytes(body)
ValidBody(body) == "invalid" \notin DOMAIN body

HasPath(body, key, field) == key \in DOMAIN body /\ field \in DOMAIN body[key]

extractClaudeConfig(body) ==
    LET thinkingType == IF HasPath(body, "thinking", "type") THEN body.thinking.type ELSE ""
    IN  IF thinkingType = "disabled"
        THEN [EmptyConfig EXCEPT !.Mode = ModeNone]
        ELSE IF thinkingType = "adaptive"
        THEN [EmptyConfig EXCEPT !.Mode = ModeAuto, !.Budget = -1]
        ELSE IF HasPath(body, "thinking", "budget_tokens")
        THEN IF body.thinking.budget_tokens = 0
             THEN [EmptyConfig EXCEPT !.Mode = ModeNone]
             ELSE IF body.thinking.budget_tokens = -1
             THEN [EmptyConfig EXCEPT !.Mode = ModeAuto, !.Budget = -1]
             ELSE [EmptyConfig EXCEPT !.Budget = body.thinking.budget_tokens]
        ELSE IF thinkingType = "enabled"
        THEN [EmptyConfig EXCEPT !.Mode = ModeAuto, !.Budget = -1]
        ELSE EmptyConfig

\* the extractor of the provider; only the Claude one is part of the model
extractThinkingConfig(body, provider) ==
    IF ~ValidBody(body)
    THEN EmptyConfig
    ELSE IF provider = "claude"
    THEN extractClaudeConfig(body)
    ELSE EmptyConfig

(***************************************************************************)
(* The model registry and the validation of a configuration                *)
(***************************************************************************)
\* registry.LookupModelInfo: nil for a model the registry does not know
LookupModelInfo(baseModel, providerKey) ==
    CASE baseModel \in {"claude-sonnet-4-5", "claude-sonnet-4-5-20250929"} ->
            [known |-> TRUE, ID |-> baseModel, UserDefined |-> FALSE, hasThinking |-> TRUE,
             Thinking |-> [Min |-> 1024, Max |-> 128000,
                           ZeroAllowed |-> FALSE, DynamicAllowed |-> FALSE],
             MaxCompletionTokens |-> 64000]
      [] baseModel \in {"claude-opus-4-6", "claude-opus-4-5-20251101"} ->
            [known |-> TRUE, ID |-> baseModel, UserDefined |-> FALSE, hasThinking |-> TRUE,
             Thinking |-> [Min |-> 1024, Max |-> 128000,
                           ZeroAllowed |-> TRUE, DynamicAllowed |-> TRUE],
             MaxCompletionTokens |-> 128000]
      [] baseModel = "claude-small" ->
            [known |-> TRUE, ID |-> baseModel, UserDefined |-> FALSE, hasThinking |-> TRUE,
             Thinking |-> [Min |-> 1024, Max |-> 128000,
                           ZeroAllowed |-> FALSE, DynamicAllowed |-> FALSE],
             MaxCompletionTokens |-> 1000]
      [] baseModel = "claude-3-5-haiku" ->
            [known |-> TRUE, ID |-> baseModel, UserDefined |-> FALSE, hasThinking |-> FALSE,
             MaxCompletionTokens |-> 8192]
      [] baseModel = "custom-claude" ->
            [known |-> TRUE, ID |-> baseModel, UserDefined |-> TRUE, hasThinking |-> FALSE,
             MaxCompletionTokens |-> 0]
      [] OTHER -> [known |-> FALSE]

IsUserDefinedModel(modelInfo) == ~modelInfo.known \/ modelInfo.UserDefined

\* the providers with a registered applier
GetProviderApplier(provider) ==
    provider \in {"gemini", "gemini-cli", "claude", "openai", "codex", "iflow",
                  "antigravity", "kimi"}

isBudgetBasedProvider(provider) == provider \in {"claude", "gemini", "gemini-cli", "antigravity"}

isLevelBasedProvider(provider) == provider \in {"openai", "codex", "iflow", "kimi"}

Clamp(budget, lo, hi) == IF budget < lo THEN lo ELSE IF budget > hi THEN hi ELSE budget

\* a budget checked against the range of the model
ValidateBudget(config, support, budget) ==
    IF budget = 0
    THEN IF support.ZeroAllowed
         THEN [ok |-> TRUE,
               config |-> [config EXCEPT !.Mode = ModeNone, !.Budget = 0, !.Level = ""]]
         ELSE [ok |-> FALSE, config |-> config]
    ELSE [ok |-> TRUE,
          config |-> [config EXCEPT !.Mode = ModeBudget,
                                    !.Budget = Clamp(budget, support.Min, support.Max),
                                    !.Level = ""]]

\* Validate: a level becomes a budget, a budget is clamped to the range of
\* the model, zero is rejected where it is not allowed, auto falls back to a
\* budget where the model has no dynamic thinking
ValidateConfig(config, modelInfo, fromFormat, toFormat, hadSuffix) ==
    CASE config.Mode = ModeLevel ->
            IF ConvertLevelToBudget(config.Level).ok
            THEN ValidateBudget(config, modelInfo.Thinking,
                                ConvertLevelToBudget(config.Level).budget)
            ELSE [ok |-> FALSE, config |-> config]
      [] config.Mode = ModeAuto ->
            IF modelInfo.Thinking.DynamicAllowed
            THEN [ok |-> TRUE, config |-> config]
            ELSE [ok |-> TRUE,
                  config |-> [config EXCEPT
                                !.Mode = ModeBudget,
                                !.Budget = (modelInfo.Thinking.Min + modelInfo.Thinking.Max) \div 2]]
      [] config.Mode = ModeNone -> ValidateBudget(config, modelInfo.Thinking, 0)
      [] OTHER -> ValidateBudget(config, modelInfo.Thinking, config.Budget)

\* the thinking fields taken out of a body
StripThinkingConfig(body, provider) ==
    IF ValidBody(body) /\ provider = "claude" THEN MapDelete(body, "thinking") ELSE body

(***************************************************************************)
(* The Claude applier                                                      *)
(***************************************************************************)
\* sjson.SetBytes(body, "key.field", value)
SetIn(body, key, field, value) ==
    MapPut(body, key, MapPut(IF key \in DOMAIN body THEN body[key] ELSE << >>, field, value))

\* sjson.DeleteBytes(body, "key.field")
DeleteIn(body, key, field) ==
    IF HasPath(body, key, field)
    THEN MapPut(body, key, MapDelete(body[key], field))
    ELSE body

OrEmptyObject(body) == IF ValidBody(body) THEN body ELSE << >>

isSpeedOnly(config) == isSpeedOnlyConfig(config)

\* no configuration counts as effort-only
isEffortOnly_Never(config) == FALSE

isEffortOnly(config) == isEffortOnlyConfig(config)

applySpeed(body, config) ==
    IF config.Speed = "" THEN body ELSE MapPut(body, "speed", config.Speed)

applyEffort(body, config) ==
    IF config.Effort = "" THEN body ELSE SetIn(body, "output_config", "effort", config.Effort)

effectiveMaxTokens(body, modelInfo) ==
    IF "max_tokens" \in DOMAIN body /\ body.max_tokens > 0
    THEN [max |-> body.max_tokens, fromModel |-> FALSE]
    ELSE IF modelInfo.known /\ modelInfo.MaxCompletionTokens > 0
    THEN [max |-> modelInfo.MaxCompletionTokens, fromModel |-> TRUE]
    ELSE [max |-> 0, fromModel |-> FALSE]

\* no shrink at all: the budget stays as it was set
AdjustBudget_NoShrink(body, budgetTokens, effectiveMax, minBudget) == body

\* the budget lowered below max_tokens, unless that puts it below the minimum
AdjustBudget(body, budgetTokens, effectiveMax, minBudget) ==
    LET adjustedBudget == IF effectiveMax > 0 /\ budgetTokens >= effectiveMax
                          THEN effectiveMax - 1
                          ELSE budgetTokens
    IN  IF minBudget > 0 /\ adjustedBudget > 0 /\ adjustedBudget < minBudget
        THEN body
        ELSE IF adjustedBudget # budgetTokens
        THEN SetIn(body, "thinking", "budget_tokens", adjustedBudget)
        ELSE body

WithDefaultMax(body, eff) ==
    IF eff.fromModel /\ eff.max > 0 THEN MapPut(body, "max_tokens", eff.max) ELSE body

normalizeClaudeBudget(body, budgetTokens, modelInfo) ==
    IF budgetTokens <= 0
    THEN body
    ELSE AdjustBudget(WithDefaultMax(body, effectiveMaxTokens(body, modelInfo)),
                      budgetTokens,
                      effectiveMaxTokens(body, modelInfo).max,
                      IF modelInfo.known /\ modelInfo.hasThinking
                      THEN modelInfo.Thinking.Min
                      ELSE 0)

WithEffortAndSpeed(body, config) == applySpeed(applyEffort(body, config), config)

Disabled(body, config) ==
    WithEffortAndSpeed(DeleteIn(SetIn(body, "thinking", "type", "disabled"),
                                "thinking", "budget_tokens"),
                       config)

\* adaptive thinking that keeps the budget field of the body
Adaptive_KeepBudget(body, config) ==
    WithEffortAndSpeed(SetIn(body, "thinking", "type", "adaptive"), config)

Adaptive(body, config) ==
    WithEffortAndSpeed(DeleteIn(SetIn(body, "thinking", "type", "adaptive"),
                                "thinking", "budget_tokens"),
                       config)

\* the budget of a model without capabilities treated as that of a registry
\* model: lowered below max_tokens, max_tokens filled in
applyCompatibleClaude_Normalized(body0, config) ==
    IF config.Mode = ModeBudget /\ config.Budget > 0
    THEN normalizeClaudeBudget(
            WithEffortAndSpeed(
                SetIn(SetIn(OrEmptyObject(body0), "thinking", "type", "enabled"),
                      "thinking", "budget_tokens", config.Budget),
                config),
            config.Budget, LookupModelInfo("claude-sonnet-4-5", "claude"))
    ELSE IF config.Mode = ModeNone
    THEN Disabled(OrEmptyObject(body0), config)
    ELSE IF config.Mode = ModeAuto
    THEN Adaptive(OrEmptyObject(body0), config)
    ELSE WithEffortAndSpeed(OrEmptyObject(body0), config)

\* applyCompatibleClaude: a model without capabilities
applyCompatibleClaude(body0, config) ==
    LET body == OrEmptyObject(body0)
    IN  IF isSpeedOnly(config)
        THEN applySpeed(body, config)
        ELSE IF isEffortOnly(config)
        THEN WithEffortAndSpeed(body, config)
        ELSE IF config.Mode \notin {ModeBudget, ModeNone, ModeAuto}
        THEN applySpeed(body, config)
        ELSE IF config.Mode = ModeNone
        THEN Disabled(body, config)
        ELSE IF config.Mode = ModeAuto
        THEN Adaptive(body, config)
        ELSE WithEffortAndSpeed(
                SetIn(SetIn(body, "thinking", "type", "enabled"),
                      "thinking", "budget_tokens", config.Budget),
                config)

\* thinking.type = "enabled", with the budget when it is positive
Enabled(body, config, modelInfo) ==
    WithEffortAndSpeed(
        IF config.Budget > 0
        THEN normalizeClaudeBudget(
                SetIn(SetIn(body, "thinking", "type", "enabled"),
                      "thinking", "budget_tokens", config.Budget),
                config.Budget, modelInfo)
        ELSE DeleteIn(SetIn(body, "thinking", "type", "enabled"), "thinking", "budget_tokens"),
        config)

\* Applier.Apply
Apply(body, config, modelInfo) ==
    IF IsUserDefinedModel(modelInfo)
    THEN applyCompatibleClaude(body, config)
    ELSE IF ~modelInfo.hasThinking
    THEN body
    ELSE IF isSpeedOnly(config)
    THEN applySpeed(OrEmptyObject(body), config)
    ELSE IF isEffortOnly(config)
    THEN WithEffortAndSpeed(OrEmptyObject(body), config)
    ELSE IF config.Mode \notin {ModeBudget, ModeNone, ModeAuto}
    THEN body
    ELSE IF config.Mode = ModeNone \/ config.Budget = 0
    THEN Disabled(OrEmptyObject(body), config)
    ELSE IF config.Mode = ModeAuto /\ modelInfo.Thinking.DynamicAllowed
    THEN Adaptive(OrEmptyObject(body), config)
    ELSE Enabled(OrEmptyObject(body), config, modelInfo)

(***************************************************************************)
(* ApplyThinking                                                           *)
(***************************************************************************)
\* what a call returns: the body and the error, and for the properties the
\* configuration the call built (built = FALSE when it built none) and
\* whether the applier ran
Returns(body, err, built, config, applied) ==
    [body |-> body, err |-> err, built |-> built, config |-> config, applied |-> applied,
     final |-> EmptyConfig]

\* applier.Apply(body, final, modelInfo) returned; final is the configuration
\* the applier was handed, config the one that was resolved
Applies(body, config, final, modelInfo) ==
    [body |-> Apply(body, final, modelInfo), err |-> "", built |-> TRUE, config |-> config,
     applied |-> TRUE, final |-> final]

normalizeUserDefinedConfig(config, fromFormat, toFormat) ==
    IF config.Mode # ModeLevel
    THEN config
    ELSE IF ~isBudgetBasedProvider(toFormat) \/ ~isLevelBasedProvider(fromFormat)
    THEN config
    ELSE IF ~ConvertLevelToBudget(config.Level).ok
    THEN config
    ELSE [config EXCEPT !.Mode = ModeBudget,
                        !.Budget = ConvertLevelToBudget(config.Level).budget,
                        !.Level = ""]

UserDefinedWith(body, modelInfo, fromFormat, toFormat, config) ==
    IF ~hasThinkingConfig(config)
    THEN Returns(body, "", TRUE, config, FALSE)
    ELSE IF ~GetProviderApplier(toFormat)
    THEN Returns(body, "", TRUE, config, FALSE)
    ELSE Applies(body, config, normalizeUserDefinedConfig(config, fromFormat, toFormat),
                 modelInfo)

applyUserDefinedModel(body, modelInfo, fromFormat, toFormat, suffixResult) ==
    UserDefinedWith(body, modelInfo, fromFormat, toFormat,
                    IF suffixResult.HasSuffix
                    THEN parseSuffixToConfig(suffixResult.RawSuffix)
                    ELSE extractThinkingConfig(body, toFormat))

\* a selection that lets the fields of the body win over the suffix
SelectConfig_BodyFirst(body, providerFormat, suffixResult) ==
    IF hasThinkingConfig(extractThinkingConfig(body, providerFormat))
    THEN extractThinkingConfig(body, providerFormat)
    ELSE parseSuffixToConfig(suffixResult.RawSuffix)

\* step 4: the suffix has priority over the body
SelectConfig(body, providerFormat, suffixResult) ==
    IF suffixResult.HasSuffix
    THEN parseSuffixToConfig(suffixResult.RawSuffix)
    ELSE extractThinkingConfig(body, providerFormat)

\* the applier runs on the unvalidated configuration when validation fails
Validated_ApplyAnyway(body, config, modelInfo, validated) ==
    [Applies(body, config, IF validated.ok THEN validated.config ELSE config, modelInfo)
        EXCEPT !.err = IF validated.ok THEN "" ELSE "validation"]

\* steps 5c and 6: validation, then the applier
Validated(body, config, modelInfo, validated) ==
    IF ~validated.ok
    THEN Returns(body, "validation", TRUE, config, FALSE)
    ELSE Applies(body, config,
                 IF config.Speed # "" /\ validated.config.Speed = ""
                 THEN [validated.config EXCEPT !.Speed = config.Speed]
                 ELSE validated.config,
                 modelInfo)

\* steps 4 to 6 for a registry model that supports thinking
Configured(body, modelInfo, fromFormat, providerFormat, hasSuffix, config) ==
    IF ~hasThinkingConfig(config)
    THEN Returns(body, "", TRUE, config, FALSE)
    ELSE IF isSpeedOnlyConfig(config) \/ isEffortOnlyConfig(config)
    THEN Applies(body, config, config, modelInfo)
    ELSE Validated(body, config, modelInfo,
                   ValidateConfig(config, modelInfo, fromFormat, providerFormat, hasSuffix))

\* step 3 for a registry model without thinking support
Unsupported(body, providerFormat, config) ==
    IF hasThinkingConfig(config)
    THEN Returns(StripThinkingConfig(body, providerFormat), "", TRUE, config, FALSE)
    ELSE Returns(body, "", TRUE, config, FALSE)

\* steps 3 to 6
WithModelInfo(body, fromFormat, providerFormat, suffixResult, modelInfo) ==
    IF IsUserDefinedModel(modelInfo)
    THEN applyUserDefinedModel(body, modelInfo, fromFormat, providerFormat, suffixResult)
    ELSE IF ~modelInfo.hasThinking
    THEN Unsupported(body, providerFormat, extractThinkingConfig(body, providerFormat))
    ELSE Configured(body, modelInfo, fromFormat, providerFormat, suffixResult.HasSuffix,
                    SelectConfig(body, providerFormat, suffixResult))

\* steps 2 to 6, the formats in lower case
Routed(body, fromFormat, providerFormat, providerKey, suffixResult) ==
    WithModelInfo(body,
                  IF fromFormat = "" THEN providerFormat ELSE fromFormat,
                  providerFormat, suffixResult,
                  LookupModelInfo(suffixResult.ModelName,
                                  IF providerKey = "" THEN providerFormat ELSE providerKey))

ApplyThinking(body, model, fromFormat, toFormat, providerKey) ==
    IF ~GetProviderApplier(Lower(toFormat))
    THEN Returns(body, "", FALSE, EmptyConfig, FALSE)
    ELSE Routed(body, Lower(fromFormat), Lower(toFormat), Lower(providerKey),
                ParseSuffix(model))

(***************************************************************************)
(* Calls of ApplyThinking                                                  *)
(***************************************************************************)
BaseModels ==
    {"claude-sonnet-4-5", "claude-opus-4-6", "claude-small", "claude-3-5-haiku",
     "custom-claude", "my-model"}

\* the text between the parentheses of a model name
Suffixes ==
    {<<"none">>, <<"auto">>, <<"AUTO">>, <<"-1">>, <<"fast">>, <<"FAST">>, <<"max">>,
     <<"minimal">>, <<"low">>, <<"medium">>, <<"High">>, <<"xhigh">>, <<"0">>, <<"512">>, <<"8192">>, <<"128100">>,
     <<"200000">>,
     <<"bogus">>,
     <<"max", "+", "auto">>, <<"high", "+", SP, "auto">>, <<"fast", "+", "8192">>,
     <<"none", "+", "fast">>, <<"bogus", "+", "0">>, <<"max", "+", "fast">>,
     <<"high", "+", "fast">>, <<"fast", "+", "0">>, <<"none", "+", "0">>}

ModelName(base, hasSuffix, suffix) ==
    IF hasSuffix THEN <<base, "(">> \o suffix \o <<")">> ELSE <<base>>

Bodies ==
    {<< >>,
     [thinking |-> [type |-> "enabled", budget_tokens |-> 2048]],
     [thinking |-> [type |-> "disabled"]],
     [thinking |-> [type |-> "adaptive"]],
     [max_tokens |-> 4096, thinking |-> [type |-> "enabled", budget_tokens |-> 2048]],
     [max_tokens |-> 1000],
     [max_tokens |-> 1025],
     [max_tokens |-> 1],
     InvalidBody}

ToFormats == {"claude", "Claude", "mistral"}

FromFormats == {"openai", "claude", ""}

\* the arguments of a call; base, hasSuffix and suffix recall how the model
\* name was written
Call(body, base, hasSuffix, suffix, fromFormat, toFormat) ==
    [body |-> body, model |-> ModelName(base, hasSuffix, suffix),
     fromFormat |-> fromFormat, toFormat |-> toFormat, providerKey |-> "",
     base |-> base, hasSuffix |-> hasSuffix, suffix |-> suffix, called |-> FALSE]

Calls ==
    {Call(body, base, TRUE, suffix, fromFormat, toFormat) :
        body \in Bodies, base \in BaseModels, suffix \in Suffixes,
        fromFormat \in FromFormats, toFormat \in ToFormats}
    \cup {Call(body, base, FALSE, <<>>, fromFormat, toFormat) :
        body \in Bodies, base \in BaseModels,
        fromFormat \in FromFormats, toFormat \in ToFormats}

\* a request is about to have its thinking configuration applied
InitApply ==
    /\ now = 0
    /\ thinkingCache = << >>
    /\ CacheIdle
    /\ StreamIdle
    /\ RequestIdle
    /\ applyIn \in Calls
    /\ applyOut = << >>
    /\ AliasIdle
    /\ AuxIdle

\* the executor calls ApplyThinking
CallApplyThinking ==
    /\ ~applyIn.called
    /\ applyOut' = ApplyThinking(applyIn.body, applyIn.model, applyIn.fromFormat,
                                 applyIn.toFormat, applyIn.providerKey)
    /\ applyIn' = [applyIn EXCEPT !.called = TRUE]
    /\ UNCHANGED <<now, cacheVars, streamVars, requestVars, aliasVars, auxVars>>

NextApply == CallApplyThinking

SpecApply == InitApply /\ [][NextApply]_vars

(***************************************************************************)
(* Properties of ApplyThinking                                             *)
(***************************************************************************)
Called == applyIn.called

Config(mode, budget, level, effort, speed) ==
    [Mode |-> mode, Budget |-> budget, Level |-> level, Effort |-> effort, Speed |-> speed]

\* what each suffix asks for, written out case by case
SuffixConfig(suffix) ==
    CASE suffix = <<"none">> -> Config(ModeNone, 0, "", "", "")
      [] suffix \in {<<"auto">>, <<"AUTO">>, <<"-1">>} -> Config(ModeAuto, -1, "", "", "")
      [] suffix \in {<<"fast">>, <<"FAST">>} -> Config(ModeBudget, 0, "", "", "fast")
      [] suffix = <<"max">> -> Config(ModeBudget, 0, "", "max", "")
      [] suffix = <<"minimal">> -> Config(ModeLevel, 0, "minimal", "", "")
      [] suffix = <<"medium">> -> Config(ModeLevel, 0, "medium", "", "")
      [] suffix = <<"low">> -> Config(ModeLevel, 0, "low", "", "")
      [] suffix = <<"High">> -> Config(ModeLevel, 0, "high", "", "")
      [] suffix = <<"xhigh">> -> Config(ModeLevel, 0, "xhigh", "", "")
      [] suffix = <<"0">> -> Config(ModeNone, 0, "", "", "")
      [] suffix = <<"512">> -> Config(ModeBudget, 512, "", "", "")
      [] suffix = <<"8192">> -> Config(ModeBudget, 8192, "", "", "")
      [] suffix = <<"128100">> -> Config(ModeBudget, 128100, "", "", "")
      [] suffix = <<"200000">> -> Config(ModeBudget, 200000, "", "", "")
      [] suffix = <<"max", "+", "auto">> -> Config(ModeAuto, -1, "", "max", "")
      [] suffix = <<"high", "+", SP, "auto">> -> Config(ModeAuto, -1, "", "high", "")
      [] suffix = <<"fast", "+", "8192">> -> Config(ModeBudget, 8192, "", "", "fast")
      [] suffix = <<"none", "+", "fast">> -> Config(ModeNone, 0, "", "", "fast")
      [] suffix = <<"max", "+", "fast">> -> Config(ModeBudget, 0, "", "max", "fast")
      [] suffix = <<"high", "+", "fast">> -> Config(ModeBudget, 0, "", "high", "fast")
      [] suffix = <<"fast", "+", "0">> -> Config(ModeBudget, 0, "", "", "fast")
      [] OTHER -> Config(ModeBudget, 0, "", "", "")

\* the body of the call carries thinking fields of its own
BodyHasThinking == ValidBody(applyIn.body) /\ "thinking" \in DOMAIN applyIn.body

\* the registry knows the model and says that it cannot think
Unsupported_Model(base) ==
    /\ LookupModelInfo(base, "claude").known
    /\ ~LookupModelInfo(base, "claude").UserDefined
    /\ ~LookupModelInfo(base, "claude").hasThinking

C10_WitnessUnsupported ==
    /\ Called
    /\ applyIn.hasSuffix
    /\ applyIn.suffix = <<"High">>
    /\ Unsupported_Model(applyIn.base)
    /\ BodyHasThinking
    /\ applyOut.built
    /\ applyOut.config = Config(ModeBudget, 2048, "", "", "")

(***************************************************************************)
(* Properties of the Claude applier                                        *)
(***************************************************************************)
ModelInfoOfCall == LookupModelInfo(applyIn.base, "claude")

\* a registry model that supports thinking
ThinkingCapable == ModelInfoOfCall.known /\ ~ModelInfoOfCall.UserDefined /\ ModelInfoOfCall.hasThinking

\* the applier ran for a registry model that supports thinking
AppliedToCapable == Called /\ applyOut.applied /\ ThinkingCapable

ThinkingTypeIs(type) ==
    HasPath(applyOut.body, "thinking", "type") /\ applyOut.body.thinking.type = type

NoBudgetField == ~HasPath(applyOut.body, "thinking", "budget_tokens")

\* the four rows of the mode mapping, for the configuration the applier was
\* handed (final) and the one that was resolved before validation (config);
\* the budget of the last two rows is a number and is at most the one asked
\* for, since max_tokens may lower it
ModeMapping ==
    /\ (applyOut.final.Mode = ModeNone \/ applyOut.final.Budget = 0)
            => (ThinkingTypeIs("disabled") /\ NoBudgetField)
    /\ (applyOut.config.Mode = ModeAuto /\ ModelInfoOfCall.Thinking.DynamicAllowed)
            => (ThinkingTypeIs("adaptive") /\ NoBudgetField)
    /\ (applyOut.config.Mode = ModeAuto /\ ~ModelInfoOfCall.Thinking.DynamicAllowed)
            => /\ ThinkingTypeIs("enabled")
               /\ ~NoBudgetField
               /\ applyOut.body.thinking.budget_tokens \in Nat
    /\ (applyOut.final.Mode = ModeBudget /\ applyOut.final.Budget > 0)
            => /\ ThinkingTypeIs("enabled")
               /\ ~NoBudgetField
               /\ applyOut.body.thinking.budget_tokens \in Nat
               /\ applyOut.body.thinking.budget_tokens <= applyOut.final.Budget

\* C11 as stated: on a thinking-capable model Mode=None or Budget=0 gives
\* thinking.type "disabled" without a budget, Mode=Auto gives "adaptive"
\* without a budget on a dynamic model and "enabled" with a numeric budget on
\* the others, Mode=Budget gives "enabled" with the budget; for every
\* configuration the applier is handed.
C11_ModeMappingAnyConfig == AppliedToCapable => ModeMapping

\* C11 amended: the mode mapping holds for every configuration the applier is
\* handed except one that carries only Effort and/or Speed (Mode=Budget,
\* Budget=0, no Level), which leaves the thinking object as it was.
C11_ModeMapping ==
    (AppliedToCapable /\ ~isEffortOnly(applyOut.final) /\ ~isSpeedOnly(applyOut.final))
        => ModeMapping

\* C11 happens: (auto) on a dynamic model turns a body with a budget into
\* adaptive thinking without one
C11_Witness ==
    /\ AppliedToCapable
    /\ applyOut.config.Mode = ModeAuto
    /\ ModelInfoOfCall.Thinking.DynamicAllowed
    /\ HasPath(applyIn.body, "thinking", "budget_tokens")
    /\ ThinkingTypeIs("adaptive")
    /\ NoBudgetField

\* (auto) on a model without dynamic thinking: enabled, with a budget
C11_WitnessFallback ==
    /\ AppliedToCapable
    /\ applyOut.config.Mode = ModeAuto
    /\ ~ModelInfoOfCall.Thinking.DynamicAllowed
    /\ ThinkingTypeIs("enabled")
    /\ ~NoBudgetField

\* (none) on a model that allows zero: disabled
C11_WitnessDisabled ==
    /\ AppliedToCapable
    /\ applyOut.final.Mode = ModeNone
    /\ HasPath(applyIn.body, "thinking", "budget_tokens")
    /\ ThinkingTypeIs("disabled")
    /\ NoBudgetField

\* the case that refutes C11 as stated: (max) has Budget=0 and leaves thinking
\* enabled
C11_WitnessEffortOnly ==
    /\ AppliedToCapable
    /\ applyOut.final.Budget = 0
    /\ isEffortOnly(applyOut.final)
    /\ ThinkingTypeIs("enabled")

\* the applier was handed a positive budget for a thinking-capable model
PositiveBudget ==
    AppliedToCapable /\ applyOut.final.Mode = ModeBudget /\ applyOut.final.Budget > 0

\* the body of the call names its own max_tokens
ExplicitMax ==
    /\ ValidBody(applyIn.body)
    /\ "max_tokens" \in DOMAIN applyIn.body
    /\ applyIn.body.max_tokens > 0

\* the effective max_tokens M: the value of the request, else the default of
\* the model
EffectiveMax ==
    IF ExplicitMax THEN applyIn.body.max_tokens ELSE ModelInfoOfCall.MaxCompletionTokens

EmittedBudget == applyOut.body.thinking.budget_tokens

\* the shrink of a budget B against M and the minimum of the model
BudgetShrunk ==
    /\ ~NoBudgetField
    /\ ~ExplicitMax => ("max_tokens" \in DOMAIN applyOut.body
                            /\ applyOut.body.max_tokens = EffectiveMax)
    /\ applyOut.final.Budget < EffectiveMax => EmittedBudget = applyOut.final.Budget
    /\ (applyOut.final.Budget >= EffectiveMax
            /\ EffectiveMax - 1 >= ModelInfoOfCall.Thinking.Min)
            => EmittedBudget = EffectiveMax - 1
    /\ (applyOut.final.Budget >= EffectiveMax
            /\ EffectiveMax - 1 < ModelInfoOfCall.Thinking.Min)
            => EmittedBudget = applyOut.final.Budget
    /\ EmittedBudget >= applyOut.body.max_tokens
            => applyOut.body.max_tokens - 1 < ModelInfoOfCall.Thinking.Min

\* C12 as stated: with a positive budget B and effective max_tokens M (written
\* back when it is the default of the model), B >= M emits M-1, unless M-1 is
\* below the minimum of the model, and then the emitted budget is exactly B;
\* an emitted budget >= max_tokens occurs only when max_tokens-1 is below the
\* minimum.
C12_BudgetBelowMaxTokens == PositiveBudget => BudgetShrunk

\* the same for every M above 1
C12_BudgetBelowMaxTokensAboveOne == (PositiveBudget /\ EffectiveMax > 1) => BudgetShrunk

\* the shrink happens: a budget above the max_tokens of the request goes out
\* as max_tokens - 1
C12_WitnessShrunk ==
    /\ PositiveBudget
    /\ ExplicitMax
    /\ applyOut.final.Budget >= EffectiveMax
    /\ EmittedBudget = EffectiveMax - 1
    /\ EmittedBudget >= ModelInfoOfCall.Thinking.Min

\* the shrink is abandoned: max_tokens - 1 is below the minimum
C12_WitnessAbandoned ==
    /\ PositiveBudget
    /\ ExplicitMax
    /\ EffectiveMax > 1
    /\ EffectiveMax - 1 < ModelInfoOfCall.Thinking.Min
    /\ EmittedBudget = applyOut.final.Budget

\* max_tokens = 1: the budget goes out as 0
C12_WitnessMaxOne ==
    /\ PositiveBudget
    /\ EffectiveMax = 1
    /\ ThinkingTypeIs("enabled")
    /\ EmittedBudget = 0

\* a budget of max+100 is asked of a model that does not allow zero, and the
\* body names no max_tokens
AboveMaxRequested ==
    /\ AppliedToCapable
    /\ ~ModelInfoOfCall.Thinking.ZeroAllowed
    /\ applyOut.config.Mode = ModeBudget
    /\ applyOut.config.Budget = ModelInfoOfCall.Thinking.Max + 100
    /\ ~ExplicitMax

DefaultFits == ModelInfoOfCall.MaxCompletionTokens - 1 >= ModelInfoOfCall.Thinking.Min

C13_WitnessBelowMin ==
    /\ AboveMaxRequested
    /\ ~DefaultFits
    /\ applyOut.body # applyIn.body
    /\ EmittedBudget = ModelInfoOfCall.Thinking.Max

\* the configuration carries Effort and/or Speed and nothing else
OnlyEffortOrSpeed(config) ==
    /\ config.Mode = ModeBudget
    /\ config.Budget = 0
    /\ config.Level = ""
    /\ (config.Effort # "" \/ config.Speed # "")

\* the body the applier starts from: an invalid body counts as {}
BodyOfCall == IF ValidBody(applyIn.body) THEN applyIn.body ELSE << >>

\* key holds the same in both bodies, or is in neither
SameAt(key) ==
    /\ key \in DOMAIN BodyOfCall <=> key \in DOMAIN applyOut.body
    /\ key \in DOMAIN BodyOfCall => applyOut.body[key] = BodyOfCall[key]

\* C14: a configuration carrying only Effort and/or Speed, once applied,
\* leaves the thinking object of the body as it was and sets nothing but
\* output_config.effort and speed, for registry and user-defined models.
C14_ThinkingUntouched ==
    (Called /\ applyOut.applied /\ OnlyEffortOrSpeed(applyOut.config))
        => /\ SameAt("thinking")
           /\ SameAt("max_tokens")
           /\ DOMAIN applyOut.body \subseteq
                  DOMAIN BodyOfCall \cup {"speed", "output_config"}
           /\ applyOut.config.Speed # ""
                  => ("speed" \in DOMAIN applyOut.body
                        /\ applyOut.body.speed = applyOut.config.Speed)
           /\ applyOut.config.Speed = "" => SameAt("speed")
           /\ applyOut.config.Effort # ""
                  => (HasPath(applyOut.body, "output_config", "effort")
                        /\ applyOut.body.output_config.effort = applyOut.config.Effort)
           /\ applyOut.config.Effort = "" => SameAt("output_config")

\* C14 happens: (max) on a registry model whose body has thinking enabled
C14_Witness ==
    /\ AppliedToCapable
    /\ OnlyEffortOrSpeed(applyOut.config)
    /\ applyOut.config.Effort = "max"
    /\ HasPath(applyIn.body, "thinking", "budget_tokens")
    /\ applyOut.body.thinking = applyIn.body.thinking
    /\ applyOut.body.output_config.effort = "max"

\* the same on a user-defined model, with (fast)
C14_WitnessUserDefined ==
    /\ Called
    /\ applyOut.applied
    /\ IsUserDefinedModel(ModelInfoOfCall)
    /\ OnlyEffortOrSpeed(applyOut.config)
    /\ applyOut.config.Speed = "fast"
    /\ HasPath(applyIn.body, "thinking", "budget_tokens")
    /\ applyOut.body.thinking = applyIn.body.thinking
    /\ applyOut.body.speed = "fast"

(***************************************************************************)
(* Properties of ApplyThinking: validation                                 *)
(***************************************************************************)
\* C15: when validation of the resolved configuration fails, ApplyThinking
\* returns the error with the body it was given, and the applier has not run.
C15_ValidationFailure ==
    (Called /\ applyOut.err # "")
        => /\ applyOut.err = "validation"
           /\ applyOut.body = applyIn.body
           /\ ~applyOut.applied

\* C15 happens: a disabled thinking is asked of a model that does not allow
\* zero, with a body that holds thinking fields
C15_Witness ==
    /\ Called
    /\ applyOut.err = "validation"
    /\ ThinkingCapable
    /\ ~ModelInfoOfCall.Thinking.ZeroAllowed
    /\ applyOut.config.Mode = ModeNone
    /\ BodyHasThinking
    /\ applyOut.body = applyIn.body

(***************************************************************************)
(* Properties of the suffix dispatch                                       *)
(***************************************************************************)
\* the suffix of the call is one token, and the call dispatched it: the
\* provider has an applier and the model is not a registry model without
\* thinking support
SingleDispatched ==
    /\ Called
    /\ applyIn.hasSuffix
    /\ Len(applyIn.suffix) = 1
    /\ applyOut.built
    /\ ~Unsupported_Model(applyIn.base)

Token == applyIn.suffix[1]

LevelOfToken ==
    CASE Token = "minimal" -> "minimal"
      [] Token = "low" -> "low"
      [] Token = "medium" -> "medium"
      [] Token = "High" -> "high"
      [] Token = "xhigh" -> "xhigh"
      [] OTHER -> ""

BudgetOfToken ==
    CASE Token = "0" -> 0
      [] Token = "512" -> 512
      [] Token = "8192" -> 8192
      [] Token = "128100" -> 128100
      [] Token = "200000" -> 200000
      [] OTHER -> -1

\* C16: one token resolves by priority: none -> Mode=None; auto, -1 ->
\* Mode=Auto with Budget=-1; fast -> Speed only; max -> Effort only; a level
\* name -> Mode=Level; an integer -> Mode=Budget with that budget, 0 ->
\* Mode=None; anything else -> the empty configuration, and the body comes
\* back unchanged.
C16_SingleTokenDispatch ==
    SingleDispatched
        => CASE Token = "none" -> applyOut.config = Config(ModeNone, 0, "", "", "")
             [] Token \in {"auto", "AUTO", "-1"} ->
                    applyOut.config = Config(ModeAuto, -1, "", "", "")
             [] Token \in {"fast", "FAST"} ->
                    /\ applyOut.config = Config(ModeBudget, 0, "", "", "fast")
                    /\ applyOut.applied => SameAt("thinking")
             [] Token = "max" ->
                    /\ applyOut.config = Config(ModeBudget, 0, "", "max", "")
                    /\ applyOut.applied => SameAt("thinking")
             [] LevelOfToken # "" ->
                    applyOut.config = Config(ModeLevel, 0, LevelOfToken, "", "")
             [] BudgetOfToken = 0 -> applyOut.config = Config(ModeNone, 0, "", "", "")
             [] BudgetOfToken > 0 ->
                    applyOut.config = Config(ModeBudget, BudgetOfToken, "", "", "")
             [] OTHER ->
                    /\ applyOut.config = EmptyConfig
                    /\ ~applyOut.applied
                    /\ applyOut.err = ""
                    /\ applyOut.body = applyIn.body

\* C16 happens: the token 0 collapses to Mode=None
C16_Witness ==
    /\ SingleDispatched
    /\ Token = "0"
    /\ applyOut.config.Mode = ModeNone
    /\ applyOut.applied
    /\ ThinkingTypeIs("disabled")

\* an unrecognized token: a body with thinking fields comes back as it was
C16_WitnessUnrecognized ==
    /\ SingleDispatched
    /\ Token = "bogus"
    /\ BodyHasThinking
    /\ applyOut.config = EmptyConfig
    /\ applyOut.body = applyIn.body

\* the suffix of the call is a compound a+b, and the call dispatched it
CompoundDispatched ==
    /\ Called
    /\ applyIn.hasSuffix
    /\ "+" \in Range(applyIn.suffix)
    /\ applyOut.built
    /\ ~Unsupported_Model(applyIn.base)

\* the two halves of the compound, without the blanks around them
FirstHalf == SelectSeq(applyIn.suffix, LAMBDA t : t \notin {"+", SP})[1]

SecondHalf == SelectSeq(applyIn.suffix, LAMBDA t : t \notin {"+", SP})[2]

\* one token resolved by the single-token rules
SingleRule(token) ==
    CASE token = "none" -> Config(ModeNone, 0, "", "", "")
      [] token = "auto" -> Config(ModeAuto, -1, "", "", "")
      [] token = "fast" -> Config(ModeBudget, 0, "", "", "fast")
      [] token = "max" -> Config(ModeBudget, 0, "", "max", "")
      [] token = "high" -> Config(ModeLevel, 0, "high", "", "")
      [] token = "0" -> Config(ModeNone, 0, "", "", "")
      [] token = "8192" -> Config(ModeBudget, 8192, "", "", "")
      [] OTHER -> Config(ModeBudget, 0, "", "", "")

\* a configuration names a thinking mode
HasMode(config) == config.Mode # ModeBudget \/ config.Budget # 0

\* two configurations merged: each field from the half that sets it, the
\* second half first
MergeOf(a, b) ==
    [Mode |-> IF HasMode(b) THEN b.Mode ELSE a.Mode,
     Budget |-> IF HasMode(b) THEN b.Budget ELSE a.Budget,
     Level |-> IF HasMode(b) THEN b.Level ELSE a.Level,
     Effort |-> IF b.Effort # "" THEN b.Effort ELSE a.Effort,
     Speed |-> IF b.Speed # "" THEN b.Speed ELSE a.Speed]

\* C17 as stated: a compound a+b resolves to the merge of a and b resolved
\* one by one with the single-token rules, so that a level name gives
\* Mode=Level and a 0 gives Mode=None.
C17_CompoundIsMerge ==
    CompoundDispatched
        => applyOut.config = MergeOf(SingleRule(FirstHalf), SingleRule(SecondHalf))

\* the compounds without a level name and without a 0 do resolve to the merge
C17_CompoundIsMergeElsewhere ==
    (CompoundDispatched /\ {FirstHalf, SecondHalf} \cap {"high", "0"} = {})
        => applyOut.config = MergeOf(SingleRule(FirstHalf), SingleRule(SecondHalf))

\* (fast+0): the 0 gives Mode=Budget with a budget of 0, the configuration
\* is speed-only and thinking stays enabled
C17_WitnessZero ==
    /\ CompoundDispatched
    /\ FirstHalf = "fast"
    /\ SecondHalf = "0"
    /\ applyOut.config = Config(ModeBudget, 0, "", "", "fast")
    /\ applyOut.applied
    /\ ThinkingTypeIs("enabled")

\* what one half of a compound sets: a level name sets Effort, an integer
\* sets Mode=Budget with that budget, 0 included
HalfRule(token) ==
    CASE token = "none" -> [setsMode |-> TRUE, Mode |-> ModeNone, Budget |-> 0,
                            Effort |-> "", Speed |-> ""]
      [] token = "auto" -> [setsMode |-> TRUE, Mode |-> ModeAuto, Budget |-> -1,
                            Effort |-> "", Speed |-> ""]
      [] token = "fast" -> [setsMode |-> FALSE, Effort |-> "", Speed |-> "fast"]
      [] token = "max" -> [setsMode |-> FALSE, Effort |-> "max", Speed |-> ""]
      [] token = "high" -> [setsMode |-> FALSE, Effort |-> "high", Speed |-> ""]
      [] token = "0" -> [setsMode |-> TRUE, Mode |-> ModeBudget, Budget |-> 0,
                         Effort |-> "", Speed |-> ""]
      [] token = "8192" -> [setsMode |-> TRUE, Mode |-> ModeBudget, Budget |-> 8192,
                            Effort |-> "", Speed |-> ""]
      [] OTHER -> [setsMode |-> FALSE, Effort |-> "", Speed |-> ""]

\* the halves merged, the second over the first
HalvesMerged(a, b) ==
    [Mode |-> IF b.setsMode THEN b.Mode ELSE IF a.setsMode THEN a.Mode ELSE ModeBudget,
     Budget |-> IF b.setsMode THEN b.Budget ELSE IF a.setsMode THEN a.Budget ELSE 0,
     Level |-> "",
     Effort |-> IF b.Effort # "" THEN b.Effort ELSE a.Effort,
     Speed |-> IF b.Speed # "" THEN b.Speed ELSE a.Speed]

\* C17 amended: a compound a+b resolves to the merge of its halves, each
\* resolved by the rules of a compound: none and auto set the mode, fast sets
\* Speed, max sets Effort, a level name sets Effort and no mode, an integer
\* sets Mode=Budget with that budget and 0 does not collapse to Mode=None.
C17_CompoundRules ==
    CompoundDispatched
        => applyOut.config = HalvesMerged(HalfRule(FirstHalf), HalfRule(SecondHalf))

\* C17 happens: in (high+fast) the level goes to Effort and no thinking mode
\* is set
C17_Witness ==
    /\ CompoundDispatched
    /\ FirstHalf = "high"
    /\ SecondHalf = "fast"
    /\ applyOut.config = Config(ModeBudget, 0, "", "high", "fast")

(***************************************************************************)
(* Model names: aliases and the dash suffixes                              *)
(*                                                                         *)
(* A model name is a sequence of tokens: the base word, then the dash      *)
(* suffixes "-thinking", "-low", "-medium", "-high", then "(", the tokens  *)
(* of the value and ")". A number is written digit by digit.               *)
(***************************************************************************)
\* the map with the given <<key, value>> pairs
MapOf(pairs) == [k \in {p[1] : p \in pairs} |-> (CHOOSE p \in pairs : p[1] = k)[2]]

\* strings.ToLower on a name
LowerName(name) == [i \in 1..Len(name) |-> Lower(name[i])]

defaultModelAliases ==
    MapOf({<<<<"claude-4.5-sonnet">>, <<"claude-sonnet-4-5">>>>,
           <<<<"claude-4.5-sonnet", "-thinking">>, <<"claude-sonnet-4-5", "-thinking">>>>,
           <<<<"claude-4.5-sonnet", "-thinking", "-low">>,
             <<"claude-sonnet-4-5", "-thinking", "-low">>>>,
           <<<<"claude-4.5-sonnet", "-thinking", "-medium">>,
             <<"claude-sonnet-4-5", "-thinking", "-medium">>>>,
           <<<<"claude-4.5-sonnet", "-thinking", "-high">>,
             <<"claude-sonnet-4-5", "-thinking", "-high">>>>,
           <<<<"claude-4.5-opus">>, <<"claude-opus-4-5">>>>,
           <<<<"claude-4.5-opus", "-thinking">>, <<"claude-opus-4-5", "-thinking">>>>,
           <<<<"claude-4.5-opus", "-thinking", "-low">>,
             <<"claude-opus-4-5", "-thinking", "-low">>>>,
           <<<<"claude-4.5-opus", "-thinking", "-medium">>,
             <<"claude-opus-4-5", "-thinking", "-medium">>>>,
           <<<<"claude-4.5-opus", "-thinking", "-high">>,
             <<"claude-opus-4-5", "-thinking", "-high">>>>})

thinkingModelAliases ==
    MapOf({<<<<"claude-sonnet-4-5">>, <<"claude-sonnet-4-5-20250929">>>>,
           <<<<"claude-opus-4-5">>, <<"claude-opus-4-5-20251101">>>>,
           <<<<"claude-sonnet-4">>, <<"claude-sonnet-4-20250514">>>>,
           <<<<"claude-opus-4">>, <<"claude-opus-4-20250514">>>>,
           <<<<"claude-opus-4-1">>, <<"claude-opus-4-1-20250805">>>>,
           <<<<"claude-3-7-sonnet">>, <<"claude-3-7-sonnet-20250219">>>>,
           <<<<"claude-3-5-sonnet">>, <<"claude-3-5-sonnet-20241022">>>>,
           <<<<"claude-3-5-haiku">>, <<"claude-3-5-haiku-20241022">>>>,
           <<<<"claude-3-opus">>, <<"claude-3-opus-20240229">>>>,
           <<<<"claude-3-sonnet">>, <<"claude-3-sonnet-20240229">>>>,
           <<<<"claude-3-haiku">>, <<"claude-3-haiku-20240307">>>>})

thinkingSuffixes ==
    <<[suffix |-> <<"-thinking", "-high">>, effort |-> "high"],
      [suffix |-> <<"-high", "-thinking">>, effort |-> "high"],
      [suffix |-> <<"-thinking", "-medium">>, effort |-> "medium"],
      [suffix |-> <<"-medium", "-thinking">>, effort |-> "medium"],
      [suffix |-> <<"-thinking", "-low">>, effort |-> "low"],
      [suffix |-> <<"-low", "-thinking">>, effort |-> "low"],
      [suffix |-> <<"-thinking">>, effort |-> "medium"]>>

\* strings.HasSuffix
HasSuffix(name, suffix) ==
    /\ Len(suffix) <= Len(name)
    /\ SubSeq(name, Len(name) - Len(suffix) + 1, Len(name)) = suffix

\* the default aliases under lower-case keys
LoweredDefaults ==
    [k \in {LowerName(d) : d \in DOMAIN defaultModelAliases} |->
        defaultModelAliases[CHOOSE d \in DOMAIN defaultModelAliases : LowerName(d) = k]]

\* the table SetModelAliases builds: the defaults, then the entries of the
\* configuration whose key and value are not blank, keys trimmed and in
\* lower case, values trimmed
MergeAliases(table, aliases) ==
    LET kept == {k \in DOMAIN aliases : TrimSpace(k) # <<>> /\ TrimSpace(aliases[k]) # <<>>}
        key(k) == LowerName(TrimSpace(k))
    IN  [n \in DOMAIN table \cup {key(k) : k \in kept} |->
            IF n \in {key(k) : k \in kept}
            THEN TrimSpace(aliases[CHOOSE k \in kept : key(k) = n])
            ELSE table[n]]

\* the copy getModelAliases returns
getModelAliases(loaded, table) == IF ~loaded THEN LoweredDefaults ELSE table

\* ResolveModelAlias on the copy of the table
ResolveModelAlias(name, aliases) ==
    IF name = <<>>
    THEN name
    ELSE IF LowerName(TrimSpace(name)) \in DOMAIN aliases
    THEN aliases[LowerName(TrimSpace(name))]
    ELSE name

Digits == {"0", "1", "2", "3", "4", "5", "6", "7", "8", "9"}

DigitValue(d) ==
    CASE d = "0" -> 0 [] d = "1" -> 1 [] d = "2" -> 2 [] d = "3" -> 3 [] d = "4" -> 4
      [] d = "5" -> 5 [] d = "6" -> 6 [] d = "7" -> 7 [] d = "8" -> 8 [] d = "9" -> 9

\* strconv.Atoi on a run of digits
RECURSIVE Atoi(_)
Atoi(digits) ==
    IF digits = <<>>
    THEN 0
    ELSE 10 * Atoi(SubSeq(digits, 1, Len(digits) - 1)) + DigitValue(digits[Len(digits)])

\* strings.TrimLeft(value, "-")
RECURSIVE TrimDashes(_)
TrimDashes(value) ==
    IF value # <<>> /\ Head(value) = "-" THEN TrimDashes(Tail(value)) ELSE value

\* the digits a value starts with
RECURSIVE DigitPrefix(_)
DigitPrefix(value) ==
    IF value # <<>> /\ Head(value) \in Digits
    THEN <<Head(value)>> \o DigitPrefix(Tail(value))
    ELSE <<>>

parseIntPrefix(value) ==
    IF value = <<>> \/ TrimDashes(value) = <<>> \/ DigitPrefix(TrimDashes(value)) = <<>>
    THEN [ok |-> FALSE, val |-> 0]
    ELSE [ok |-> TRUE, val |-> Atoi(DigitPrefix(TrimDashes(value)))]

\* what NormalizeThinkingModel returns: the base model and the metadata, a
\* nil map when matched is FALSE
Normalized(baseModel, matched, name, resolvedModel, budget, effort) ==
    [base |-> baseModel, matched |-> matched,
     original |-> IF matched THEN name ELSE <<>>,
     resolved |-> IF matched /\ resolvedModel # name THEN resolvedModel ELSE <<>>,
     hasBudget |-> matched /\ budget.ok, budget |-> IF matched /\ budget.ok THEN budget.val ELSE 0,
     effort |-> IF matched THEN effort ELSE ""]

\* the first of the dash suffixes the name ends with, 0 when there is none
MatchingSuffix(name) ==
    LET matching == {i \in 1..Len(thinkingSuffixes) :
                        HasSuffix(LowerName(name), thinkingSuffixes[i].suffix)}
    IN  IF matching = {} THEN 0 ELSE Min(matching)

\* the part of the name before the suffix, through the table of base models
BaseOfPrefix(prefix) ==
    IF LowerName(prefix) \in DOMAIN thinkingModelAliases
    THEN thinkingModelAliases[LowerName(prefix)]
    ELSE prefix

\* the name ends with a dash suffix
DashSuffixed(name, resolvedModel, ts) ==
    Normalized(BaseOfPrefix(SubSeq(name, 1, Len(name) - Len(ts.suffix))), TRUE,
               name, resolvedModel, [ok |-> FALSE, val |-> 0], ts.effort)

\* the name ends with "(value)"
Parenthesized(name, resolvedModel, idx) ==
    LET value == SubSeq(name, idx + 1, Len(name) - 1)
        candidateBase == SubSeq(name, 1, idx - 1)
    IN  IF name[Len(name)] # ")" \/ value = <<>>
        THEN Normalized(resolvedModel, FALSE, name, resolvedModel, [ok |-> FALSE, val |-> 0], "")
        ELSE IF parseIntPrefix(value).ok
        THEN Normalized(candidateBase, TRUE, name, resolvedModel, parseIntPrefix(value), "")
        ELSE Normalized(candidateBase, TrimSpace(value) # <<>>, name, resolvedModel,
                        [ok |-> FALSE, val |-> 0], Lower(WordOf(TrimSpace(value))))

\* NormalizeThinkingModel after the alias is resolved
NormalizeResolved(name, resolvedModel) ==
    IF MatchingSuffix(name) # 0
    THEN DashSuffixed(name, resolvedModel, thinkingSuffixes[MatchingSuffix(name)])
    ELSE IF "(" \in Range(name)
    THEN Parenthesized(name, resolvedModel,
                       CHOOSE i \in 1..Len(name) :
                           name[i] = "(" /\ \A k \in (i + 1)..Len(name) : name[k] # "(")
    ELSE Normalized(resolvedModel, FALSE, name, resolvedModel, [ok |-> FALSE, val |-> 0], "")

NormalizeThinkingModel(name, aliases) ==
    IF name = <<>>
    THEN Normalized(name, FALSE, name, name, [ok |-> FALSE, val |-> 0], "")
    ELSE NormalizeResolved(name, ResolveModelAlias(name, aliases))

(***************************************************************************)
(* Effort levels and budgets                                               *)
(***************************************************************************)
\* the models that take a level and no budget
ModelUsesThinkingLevels(model) == model \in {"gpt-5.1"}

\* the level of a model that takes levels, in its own spelling
NormalizeReasoningEffortLevel(model, effort) ==
    IF ModelUsesThinkingLevels(model) /\ Lower(effort) \in {"low", "medium", "high"}
    THEN [ok |-> TRUE, level |-> Lower(effort)]
    ELSE [ok |-> FALSE, level |-> ""]

\* a budget brought into the range of the model
NormalizeThinkingBudget(model, budget) ==
    LET info == LookupModelInfo(model, "")
    IN  IF ~info.known \/ ~info.hasThinking
        THEN budget
        ELSE IF budget = -1
        THEN IF info.Thinking.DynamicAllowed
             THEN -1
             ELSE (info.Thinking.Min + info.Thinking.Max) \div 2
        ELSE IF budget = 0
        THEN IF info.Thinking.ZeroAllowed THEN 0 ELSE info.Thinking.Min
        ELSE Clamp(budget, info.Thinking.Min, info.Thinking.Max)

\* the budgets of the table as they are, whatever the range of the model
LevelBudget_NoClamp(model, level) ==
    CASE level = "none" -> [ok |-> TRUE, budget |-> 0]
      [] level = "auto" -> [ok |-> TRUE, budget |-> -1]
      [] level = "minimal" -> [ok |-> TRUE, budget |-> 512]
      [] level = "low" -> [ok |-> TRUE, budget |-> 1024]
      [] level = "medium" -> [ok |-> TRUE, budget |-> 8192]
      [] level = "high" -> [ok |-> TRUE, budget |-> 24576]
      [] level = "xhigh" -> [ok |-> TRUE, budget |-> 32768]
      [] OTHER -> [ok |-> FALSE, budget |-> 0]

\* the budget of the level, through the range of the model
LevelBudget(model, level) ==
    CASE level = "none" -> [ok |-> TRUE, budget |-> 0]
      [] level = "auto" -> [ok |-> TRUE, budget |-> NormalizeThinkingBudget(model, -1)]
      [] level = "minimal" -> [ok |-> TRUE, budget |-> NormalizeThinkingBudget(model, 512)]
      [] level = "low" -> [ok |-> TRUE, budget |-> NormalizeThinkingBudget(model, 1024)]
      [] level = "medium" -> [ok |-> TRUE, budget |-> NormalizeThinkingBudget(model, 8192)]
      [] level = "high" -> [ok |-> TRUE, budget |-> NormalizeThinkingBudget(model, 24576)]
      [] level = "xhigh" -> [ok |-> TRUE, budget |-> NormalizeThinkingBudget(model, 32768)]
      [] OTHER -> [ok |-> FALSE, budget |-> 0]

ThinkingEffortToBudget(model, effort) ==
    IF effort = ""
    THEN [ok |-> FALSE, budget |-> 0]
    ELSE LevelBudget(model,
                     IF NormalizeReasoningEffortLevel(model, effort).ok
                     THEN NormalizeReasoningEffortLevel(model, effort).level
                     ELSE Lower(effort))

\* ResolveThinkingConfigFromMetadata on the metadata of a normalized name:
\* the budget of the name, else the budget of its effort
ResolveThinkingConfigFromMetadata(model, metadata) ==
    IF ~metadata.matched \/ (~metadata.hasBudget /\ metadata.effort = "")
    THEN [matched |-> FALSE, hasBudget |-> FALSE, budget |-> 0]
    ELSE IF ModelUsesThinkingLevels(model)
    THEN [matched |-> FALSE, hasBudget |-> FALSE, budget |-> 0]
    ELSE IF metadata.hasBudget
    THEN [matched |-> TRUE, hasBudget |-> TRUE, budget |-> metadata.budget]
    ELSE [matched |-> TRUE,
          hasBudget |-> ThinkingEffortToBudget(model, metadata.effort).ok,
          budget |-> ThinkingEffortToBudget(model, metadata.effort).budget]

(***************************************************************************)
(* Reloads of the alias table and calls of NormalizeThinkingModel          *)
(***************************************************************************)
MaxReloads == 2

\* the aliases of two configurations: A adds an alias and replaces a default,
\* with blanks around a key and a value; B adds another alias and holds a
\* blank key and a blank value
Overrides(id) ==
    CASE id = "A" -> MapOf({<<<<"My-Alias">>, <<"claude-opus-4-5">>>>,
                            <<<<SP, "claude-4.5-sonnet", SP>>, <<SP, "my-model">>>>})
      [] id = "B" -> MapOf({<<<<"other">>, <<"my-model">>>>,
                            <<<<SP>>, <<"my-model">>>>,
                            <<<<"my-alias-2">>, <<>>>>})

Levels == {"none", "auto", "minimal", "low", "medium", "High", "xhigh", "bogus"}

\* the names handed to NormalizeThinkingModel
Names ==
    {<<"claude-sonnet-4-5", "-thinking", "-low">>,
     <<"claude-sonnet-4-5", "-thinking", "-medium">>,
     <<"Claude-Sonnet-4-5", "-Thinking", "-high">>,
     <<"claude-opus-4-5", "-thinking">>,
     <<"claude-sonnet-4-5", "-high", "-thinking">>,
     <<"claude-4.5-sonnet", "-thinking">>,
     <<"claude-4.5-sonnet", "-thinking", "-low">>,
     <<"my-model", "-thinking", "-medium">>,
     <<"claude-4.5-sonnet">>, <<"My-Alias">>, <<"my-alias">>, <<"other">>, <<"my-model">>,
     <<"claude-sonnet-4-5", "(", "8", "1", "9", "2", ")">>,
     <<"claude-sonnet-4-5", "(", "-", "1", ")">>,
     <<"claude-sonnet-4-5", "(", ")">>,
     <<"gpt-5.1", "(", "high", ")">>}
    \cup {<<model, "(", level, ")">> :
            model \in {"claude-sonnet-4-5-20250929", "claude-opus-4-5-20251101",
                       "claude-3-5-haiku"},
            level \in Levels}

InitAlias ==
    /\ now = 0
    /\ thinkingCache = << >>
    /\ CacheIdle
    /\ StreamIdle
    /\ RequestIdle
    /\ ApplyIdle
    /\ AliasIdle
    /\ AuxIdle

otherVars == <<now, cacheVars, streamVars, requestVars, applyVars, auxVars>>

\* aliasesMutex.RLock() may go on
CanRLock_Always(mutex) == TRUE

CanRLock(mutex) == ~mutex.writer

\* aliasesMutex.Lock() may go on
CanLock(mutex) == ~mutex.writer /\ mutex.readers = 0

\* the configuration is loaded: SetModelAliases is called
Reload(id) ==
    /\ setter.pc = "idle"
    /\ setter.count < MaxReloads
    /\ setter' = [setter EXCEPT !.pc = "Lock", !.arg = id]
    /\ UNCHANGED <<modelAliases, aliasesLoaded, aliasesMutex, resolver, normalized,
                   effortBudget, otherVars>>

SetterLock ==
    /\ setter.pc = "Lock"
    /\ CanLock(aliasesMutex)
    /\ aliasesMutex' = [aliasesMutex EXCEPT !.writer = TRUE]
    /\ setter' = [setter EXCEPT !.pc = "make"]
    /\ UNCHANGED <<modelAliases, aliasesLoaded, resolver, normalized, effortBudget, otherVars>>

\* modelAliases = make(map[string]string)
SetterMake ==
    /\ setter.pc = "make"
    /\ modelAliases' = << >>
    /\ setter' = [setter EXCEPT !.pc = "defaults"]
    /\ UNCHANGED <<aliasesLoaded, aliasesMutex, resolver, normalized, effortBudget, otherVars>>

SetterDefaults ==
    /\ setter.pc = "defaults"
    /\ modelAliases' = LoweredDefaults
    /\ setter' = [setter EXCEPT !.pc = "merge"]
    /\ UNCHANGED <<aliasesLoaded, aliasesMutex, resolver, normalized, effortBudget, otherVars>>

SetterMerge ==
    /\ setter.pc = "merge"
    /\ modelAliases' = MergeAliases(modelAliases, Overrides(setter.arg))
    /\ setter' = [setter EXCEPT !.pc = "loaded"]
    /\ UNCHANGED <<aliasesLoaded, aliasesMutex, resolver, normalized, effortBudget, otherVars>>

SetterLoaded ==
    /\ setter.pc = "loaded"
    /\ aliasesLoaded' = TRUE
    /\ setter' = [setter EXCEPT !.pc = "Unlock"]
    /\ UNCHANGED <<modelAliases, aliasesMutex, resolver, normalized, effortBudget, otherVars>>

\* the deferred Unlock: the reload is over
SetterUnlock ==
    /\ setter.pc = "Unlock"
    /\ aliasesMutex' = [aliasesMutex EXCEPT !.writer = FALSE]
    /\ setter' = [pc |-> "idle", arg |-> "none", last |-> setter.arg, prev |-> setter.last,
                  count |-> setter.count + 1]
    /\ UNCHANGED <<modelAliases, aliasesLoaded, resolver, normalized, effortBudget, otherVars>>

\* NormalizeThinkingModel(name) is called; it starts with ResolveModelAlias
CallNormalize(name) ==
    /\ resolver.pc = "idle"
    /\ resolver' = [pc |-> "RLock", name |-> name]
    /\ UNCHANGED <<modelAliases, aliasesLoaded, aliasesMutex, setter, normalized,
                   effortBudget, otherVars>>

ResolverRLock ==
    /\ resolver.pc = "RLock"
    /\ CanRLock(aliasesMutex)
    /\ aliasesMutex' = [aliasesMutex EXCEPT !.readers = @ + 1]
    /\ resolver' = [resolver EXCEPT !.pc = "copy"]
    /\ UNCHANGED <<modelAliases, aliasesLoaded, setter, normalized, effortBudget, otherVars>>

\* the table is copied; lastAt and pendingAt recall the reload that was over
\* and the one that was under way
ResolverCopy ==
    /\ resolver.pc = "copy"
    /\ resolver' = [pc |-> "RUnlock", name |-> resolver.name,
                    aliases |-> getModelAliases(aliasesLoaded, modelAliases),
                    lastAt |-> setter.last,
                    pendingAt |-> IF setter.pc \in {"idle", "Lock"}
                                  THEN setter.last
                                  ELSE setter.arg]
    /\ UNCHANGED <<modelAliases, aliasesLoaded, aliasesMutex, setter, normalized,
                   effortBudget, otherVars>>

ResolverRUnlock ==
    /\ resolver.pc = "RUnlock"
    /\ aliasesMutex' = [aliasesMutex EXCEPT !.readers = @ - 1]
    /\ resolver' = [resolver EXCEPT !.pc = "normalize"]
    /\ UNCHANGED <<modelAliases, aliasesLoaded, setter, normalized, effortBudget, otherVars>>

\* the rest of NormalizeThinkingModel, on the copy
Normalize ==
    /\ resolver.pc = "normalize"
    /\ normalized' = NormalizeThinkingModel(resolver.name, resolver.aliases)
    /\ resolver' = [resolver EXCEPT !.pc = "resolve"]
    /\ UNCHANGED <<modelAliases, aliasesLoaded, aliasesMutex, setter, effortBudget, otherVars>>

\* ResolveThinkingConfigFromMetadata on the base model and its metadata
ResolveConfig ==
    /\ resolver.pc = "resolve"
    /\ effortBudget' = ResolveThinkingConfigFromMetadata(WordOf(normalized.base), normalized)
    /\ resolver' = [resolver EXCEPT !.pc = "done"]
    /\ UNCHANGED <<modelAliases, aliasesLoaded, aliasesMutex, setter, normalized, otherVars>>

\* the request is over
Return ==
    /\ resolver.pc = "done"
    /\ resolver' = [pc |-> "idle"]
    /\ normalized' = << >>
    /\ effortBudget' = << >>
    /\ UNCHANGED <<modelAliases, aliasesLoaded, aliasesMutex, setter, otherVars>>

NextAlias ==
    \/ \E id \in {"A", "B"} : Reload(id)
    \/ SetterLock
    \/ SetterMake
    \/ SetterDefaults
    \/ SetterMerge
    \/ SetterLoaded
    \/ SetterUnlock
    \/ \E name \in Names : CallNormalize(name)
    \/ ResolverRLock
    \/ ResolverCopy
    \/ ResolverRUnlock
    \/ Normalize
    \/ ResolveConfig
    \/ Return

SpecAlias == InitAlias /\ [][NextAlias]_vars

TypeAlias == aliasesMutex.readers \in 0..1

(***************************************************************************)
(* Properties of the model names                                           *)
(***************************************************************************)
\* NormalizeThinkingModel has returned
NormalizeDone == resolver.pc \in {"resolve", "done"}

\* the effort of a name that ends with -thinking, -thinking-low,
\* -thinking-medium or -thinking-high, in any case of letters; the names
\* with the words the other way round (-high-thinking) are left aside
DashEffort(name) ==
    CASE \E level \in {"-low", "-medium", "-high"} :
            HasSuffix(LowerName(name), <<level, "-thinking">>) -> ""
      [] HasSuffix(LowerName(name), <<"-thinking", "-low">>) -> "low"
      [] HasSuffix(LowerName(name), <<"-thinking", "-medium">>) -> "medium"
      [] HasSuffix(LowerName(name), <<"-thinking", "-high">>) -> "high"
      [] HasSuffix(LowerName(name), <<"-thinking">>) -> "medium"
      [] OTHER -> ""

\* the <base> of a dash-suffixed name, in lower case; for a name of the
\* primary alias table it is the base of the name the alias stands for
DashBase(name) ==
    CASE LowerName(name)[1] = "claude-4.5-sonnet" -> <<"claude-sonnet-4-5">>
      [] LowerName(name)[1] = "claude-4.5-opus" -> <<"claude-opus-4-5">>
      [] OTHER -> <<LowerName(name)[1]>>

\* <base> through the secondary table
SecondaryBase(base) ==
    CASE base = <<"claude-sonnet-4-5">> -> <<"claude-sonnet-4-5-20250929">>
      [] base = <<"claude-opus-4-5">> -> <<"claude-opus-4-5-20251101">>
      [] OTHER -> base

\* C18 as stated: <base>-thinking-low|-medium|-high resolves to that effort
\* and <base>-thinking to medium, with the base model <base> taken through
\* the secondary table, also for a name of the primary alias table:
\* claude-4.5-sonnet-thinking resolves to claude-sonnet-4-5-20250929.
C18_DashSuffix ==
    (NormalizeDone /\ DashEffort(resolver.name) # "")
        => /\ normalized.matched
           /\ normalized.effort = DashEffort(resolver.name)
           /\ normalized.base = SecondaryBase(DashBase(resolver.name))

\* the same for the names that are not in the primary alias table
C18_DashSuffixUnaliased ==
    (NormalizeDone /\ DashEffort(resolver.name) # ""
        /\ LowerName(resolver.name) \notin DOMAIN resolver.aliases)
        => /\ normalized.matched
           /\ normalized.effort = DashEffort(resolver.name)
           /\ normalized.base = SecondaryBase(DashBase(resolver.name))

\* a name without alias: claude-sonnet-4-5-thinking-low
C18_WitnessUnaliased ==
    /\ NormalizeDone
    /\ resolver.name = <<"claude-sonnet-4-5", "-thinking", "-low">>
    /\ normalized.effort = "low"
    /\ normalized.base = <<"claude-sonnet-4-5-20250929">>

\* claude-4.5-sonnet-thinking: the alias is resolved and not used, the base
\* is the text before the suffix
C18_WitnessAliased ==
    /\ NormalizeDone
    /\ resolver.name = <<"claude-4.5-sonnet", "-thinking">>
    /\ normalized.resolved = <<"claude-sonnet-4-5", "-thinking">>
    /\ normalized.effort = "medium"
    /\ normalized.base = <<"claude-4.5-sonnet">>

\* the table after a reload with the aliases of id, entry by entry
TableOf(id) ==
    CASE id = "none" -> defaultModelAliases
      [] id = "A" ->
            [k \in DOMAIN defaultModelAliases \cup {<<"my-alias">>} |->
                IF k = <<"my-alias">> THEN <<"claude-opus-4-5">>
                ELSE IF k = <<"claude-4.5-sonnet">> THEN <<"my-model">>
                ELSE defaultModelAliases[k]]
      [] id = "B" ->
            [k \in DOMAIN defaultModelAliases \cup {<<"other">>} |->
                IF k = <<"other">> THEN <<"my-model">> ELSE defaultModelAliases[k]]

\* the copy of the table is in the hands of the resolver
Copied == resolver.pc \in {"RUnlock", "normalize", "resolve", "done"}

\* a name looked up in a table by exact match, whatever the case of letters
LookedUp(name, table) ==
    IF LowerName(name) \in DOMAIN table THEN table[LowerName(name)] ELSE name

\* what the call resolved the name to
ResolvedName == IF normalized.matched /\ normalized.resolved # <<>>
                THEN normalized.resolved
                ELSE IF normalized.matched THEN resolver.name ELSE normalized.base

\* C19: a lookup resolves against the defaults overlaid with the overrides
\* of the most recent reload only, by exact match whatever the case: the
\* table it reads is the complete table of the last reload that was over, or
\* the complete table of a reload under way, never a mixture, and a name
\* that only an earlier reload knew does not resolve.
C19_AliasTable ==
    /\ Copied => resolver.aliases \in {TableOf(resolver.lastAt), TableOf(resolver.pendingAt)}
    /\ (NormalizeDone /\ "(" \notin Range(resolver.name))
            => ResolvedName \in {LookedUp(resolver.name, TableOf(resolver.lastAt)),
                                 LookedUp(resolver.name, TableOf(resolver.pendingAt))}

\* C19 happens: after SetModelAliases(A) and then SetModelAliases(B), the
\* alias that only A had is looked up and does not resolve
C19_Witness ==
    /\ NormalizeDone
    /\ setter.prev = "A"
    /\ resolver.lastAt = "B"
    /\ resolver.name = <<"My-Alias">>
    /\ ResolvedName = <<"My-Alias">>
    /\ <<"other">> \in DOMAIN resolver.aliases
    /\ <<"my-alias">> \notin DOMAIN resolver.aliases

\* after SetModelAliases(A) the alias resolves, whatever the case
C19_WitnessResolved ==
    /\ NormalizeDone
    /\ resolver.lastAt = "A"
    /\ resolver.name = <<"My-Alias">>
    /\ ResolvedName = <<"claude-opus-4-5">>

\* a lookup waits for a reload under way
C19_WitnessWaiting ==
    /\ resolver.pc = "RLock"
    /\ setter.pc \in {"make", "defaults", "merge", "loaded"}

(***************************************************************************)
(* Properties of the conversion of a level to a budget                     *)
(***************************************************************************)
\* the capabilities of the base model the name was normalized to
BaseInfo == LookupModelInfo(WordOf(normalized.base), "")

\* a level was converted for a Claude model that supports thinking
LevelConverted ==
    /\ resolver.pc = "done"
    /\ normalized.matched
    /\ ~normalized.hasBudget
    /\ normalized.effort # ""
    /\ BaseInfo.known
    /\ BaseInfo.hasThinking

\* the fixed table
TableBudget(level) ==
    CASE level = "none" -> 0
      [] level = "minimal" -> 512
      [] level = "low" -> 1024
      [] level = "medium" -> 8192
      [] level = "high" -> 24576
      [] level = "xhigh" -> 32768

InRange(budget) == BaseInfo.Thinking.Min <= budget /\ budget <= BaseInfo.Thinking.Max

C20_WitnessHigh ==
    /\ LevelConverted
    /\ normalized.base = <<"claude-sonnet-4-5-20250929">>
    /\ normalized.effort = "high"
    /\ effortBudget.hasBudget
    /\ effortBudget.budget = 24576

(***************************************************************************)
(* Properties of the Claude applier: models without capabilities           *)
(***************************************************************************)
\* the applier ran for a model the registry does not know or marks as
\* user-defined
AppliedToUserDefined == Called /\ applyOut.applied /\ IsUserDefinedModel(ModelInfoOfCall)

\* C21: for an unknown or user-defined model the applier maps Mode=None to
\* disabled without budget, Mode=Auto to adaptive without budget, and
\* Mode=Budget with a budget other than 0 to enabled with exactly that
\* budget, whatever the range of any model; max_tokens is neither added nor
\* changed.
C21_UserDefinedMapping ==
    AppliedToUserDefined
        => /\ applyOut.final.Mode = ModeNone
                => (ThinkingTypeIs("disabled") /\ NoBudgetField)
           /\ applyOut.final.Mode = ModeAuto
                => (ThinkingTypeIs("adaptive") /\ NoBudgetField)
           /\ (applyOut.final.Mode = ModeBudget /\ applyOut.final.Budget # 0)
                => /\ ThinkingTypeIs("enabled")
                   /\ HasPath(applyOut.body, "thinking", "budget_tokens")
                   /\ applyOut.body.thinking.budget_tokens = applyOut.final.Budget
           /\ SameAt("max_tokens")

\* C21 happens: a budget above every maximum and above max_tokens goes out
\* as it is, for a model the registry does not know
C21_Witness ==
    /\ AppliedToUserDefined
    /\ ~ModelInfoOfCall.known
    /\ applyOut.final.Mode = ModeBudget
    /\ applyOut.final.Budget = 200000
    /\ "max_tokens" \in DOMAIN applyIn.body
    /\ applyOut.body.thinking.budget_tokens = 200000
    /\ applyOut.body.max_tokens = applyIn.body.max_tokens

\* the same for a model registered as user-defined, below every minimum and
\* without max_tokens
C21_WitnessUserDefined ==
    /\ AppliedToUserDefined
    /\ ModelInfoOfCall.known
    /\ applyOut.final.Mode = ModeBudget
    /\ applyOut.final.Budget = 512
    /\ applyOut.body.thinking.budget_tokens = 512
    /\ "max_tokens" \notin DOMAIN applyOut.body

\* and the modes without budget
C21_WitnessAdaptive ==
    /\ AppliedToUserDefined
    /\ applyOut.final.Mode = ModeAuto
    /\ ThinkingTypeIs("adaptive")
    /\ HasPath(applyIn.body, "thinking", "budget_tokens")
    /\ NoBudgetField

(***************************************************************************)
(* Properties of the cache_control markers                                 *)
(***************************************************************************)
Marked(item) == "cache_control" \in DOMAIN item

ToolMarks(req) ==
    IF "tools" \in DOMAIN req
    THEN {i \in 1..Len(req.tools) : Marked(req.tools[i])}
    ELSE {}

SystemBlocks(req) ==
    IF "system" \in DOMAIN req /\ req.system.kind = "array" THEN req.system.blocks ELSE <<>>

SystemMarks(req) == {i \in 1..Len(SystemBlocks(req)) : Marked(SystemBlocks(req)[i])}

MessageMarks(req) ==
    {ij \in (1..Len(req.messages)) \X (1..3) :
        /\ ij[2] <= Len(req.messages[ij[1]].content)
        /\ Marked(req.messages[ij[1]].content[ij[2]])}

\* a thinking, redacted_thinking or empty-text item
NeverMarked(item) ==
    \/ item.type \in {"thinking", "redacted_thinking"}
    \/ (item.type = "text" /\ item.text = <<>>)

\* i is the last item of items that may carry a marker
LastMarkable(items, i) ==
    /\ i \in 1..Len(items)
    /\ ~NeverMarked(items[i])
    /\ \A k \in (i + 1)..Len(items) : NeverMarked(items[k])

HasMarkable(items) == \E i \in 1..Len(items) : ~NeverMarked(items[i])

UserTurns(req) == {i \in 1..Len(req.messages) : req.messages[i].role = "user"}

LastUserTurn(req) == CHOOSE i \in UserTurns(req) : \A k \in UserTurns(req) : k <= i

FirstUserTurn(req) == CHOOSE i \in UserTurns(req) : \A k \in UserTurns(req) : i <= k

\* the markers of req: at most four, on the last tool, on the last system
\* block with content, on the last markable item of the last and of the first
\* user turn, and on nothing else
MarkersPlaced(req) ==
    /\ Cardinality(ToolMarks(req)) + Cardinality(SystemMarks(req))
            + Cardinality(MessageMarks(req)) <= 4
    /\ "tools" \in DOMAIN req => ToolMarks(req) = {Len(req.tools)}
    /\ \A i \in SystemMarks(req) : LastMarkable(SystemBlocks(req), i)
    /\ HasMarkable(SystemBlocks(req)) => SystemMarks(req) # {}
    /\ \A ij \in MessageMarks(req) :
            /\ ij[1] \in {LastUserTurn(req), FirstUserTurn(req)}
            /\ LastMarkable(req.messages[ij[1]].content, ij[2])
    /\ (UserTurns(req) # {} /\ HasMarkable(req.messages[LastUserTurn(req)].content))
            => \E ij \in MessageMarks(req) : ij[1] = LastUserTurn(req)

\* C22: every request the reverse translator produces carries at most four
\* cache_control markers, on the last tool, on the last non-empty system
\* block and on the last cacheable content item of the last and of the first
\* user turn; none sits on a thinking, redacted_thinking or empty-text item.
C22_MarkerPlacement == Converted => MarkersPlaced(claudeRequest)

\* the same for the function as its own file has it, applied to the request
\* the translator built
C22_MarkerPlacementOwnFile == Converted => MarkersPlaced(request.ownFile)

\* a marker of the translator sits on a thinking item of a user turn
C22_WitnessThinkingMarked ==
    /\ Converted
    /\ \E ij \in MessageMarks(claudeRequest) :
            claudeRequest.messages[ij[1]].content[ij[2]].type = "thinking"

\* a marker of the translator sits on an empty text item
C22_WitnessEmptyTextMarked ==
    /\ Converted
    /\ \E ij \in MessageMarks(claudeRequest) :
            /\ claudeRequest.messages[ij[1]].content[ij[2]].type = "text"
            /\ claudeRequest.messages[ij[1]].content[ij[2]].text = <<>>

\* all four markers are placed, by either function
C22_WitnessFour ==
    /\ Converted
    /\ Cardinality(ToolMarks(request.ownFile)) + Cardinality(SystemMarks(request.ownFile))
            + Cardinality(MessageMarks(request.ownFile)) = 4
    /\ Cardinality(ToolMarks(claudeRequest)) + Cardinality(SystemMarks(claudeRequest))
            + Cardinality(MessageMarks(claudeRequest)) = 4

(***************************************************************************)
(* ConvertClaudeResponseToOpenAINonStream: the captured lines of one      *)
(* response, materialized as one chat completion                           *)
(***************************************************************************)
\* the locals of the function before its loop over the lines
NonStreamLocals ==
    [messageID |-> "", model |-> "", createdAt |-> 0, stopReason |-> "",
     contentParts |-> <<>>, toolCallsAccumulator |-> << >>,
     usage |-> [prompt_tokens |-> 0, completion_tokens |-> 0, total_tokens |-> 0]]

\* the usage of the response after a message_delta that carries usage
NonStreamUsage(usage) ==
    [prompt_tokens |-> Counter(usage, "input_tokens")
                           + Counter(usage, "cache_creation_input_tokens"),
     completion_tokens |-> Counter(usage, "output_tokens"),
     total_tokens |-> Counter(usage, "input_tokens") + Counter(usage, "output_tokens"),
     prompt_tokens_details |-> [cached_tokens |-> Counter(usage, "cache_read_input_tokens")]]

\* case "content_block_delta" of the loop: thinking and signature deltas are dropped
NonStreamDelta(s, ev) ==
    IF ~ev.hasDelta
    THEN s
    ELSE CASE ev.deltaType = "text_delta" ->
                [s EXCEPT !.contentParts = Append(@, ev.payload)]
           [] ev.deltaType = "input_json_delta" ->
                IF ev.index \in DOMAIN s.toolCallsAccumulator
                THEN [s EXCEPT !.toolCallsAccumulator[ev.index].Arguments = @ \o ev.payload]
                ELSE s
           [] OTHER -> s

\* one turn of the loop over the lines
NonStreamLine(s, ev, t) ==
    IF ~ev.dataTag
    THEN s
    ELSE CASE ev.type = "message_start" ->
                IF ev.hasMessage
                THEN [s EXCEPT !.messageID = ev.messageID, !.model = modelName,
                               !.createdAt = t]
                ELSE s
           [] ev.type = "content_block_start" ->
                IF ev.hasBlock /\ ev.blockType = "tool_use"
                THEN [s EXCEPT !.toolCallsAccumulator =
                         MapPut(@, ev.index, [ID |-> ev.toolID, Name |-> ev.toolName,
                                              Arguments |-> <<>>])]
                ELSE s
           [] ev.type = "content_block_delta" -> NonStreamDelta(s, ev)
           [] ev.type = "content_block_stop" ->
                IF ev.index \in DOMAIN s.toolCallsAccumulator
                   /\ s.toolCallsAccumulator[ev.index].Arguments = <<>>
                THEN [s EXCEPT !.toolCallsAccumulator[ev.index].Arguments = <<"{}">>]
                ELSE s
           [] ev.type = "message_delta" ->
                [s EXCEPT !.stopReason = IF ev.hasDelta /\ ev.hasStopReason
                                         THEN ev.stopReason ELSE @,
                          !.usage = IF ev.hasUsage THEN NonStreamUsage(ev.usage) ELSE @]
           [] OTHER -> s

RECURSIVE NonStreamLoop(_, _, _)
NonStreamLoop(s, lines, t) ==
    IF lines = <<>> THEN s ELSE NonStreamLoop(NonStreamLine(s, Head(lines), t), Tail(lines), t)

\* strings.Join(parts, "")
RECURSIVE Join(_)
Join(strs) == IF strs = <<>> THEN <<>> ELSE Head(strs) \o Join(Tail(strs))

Max(S) == CHOOSE m \in S : \A k \in S : m >= k

\* the accumulated tool calls from index i up, in index order
RECURSIVE ToolCallsFrom(_, _)
ToolCallsFrom(accumulator, i) ==
    IF DOMAIN accumulator = {} \/ i > Max(DOMAIN accumulator)
    THEN <<>>
    ELSE (IF i \in DOMAIN accumulator
          THEN <<[id |-> accumulator[i].ID, type |-> "function",
                  function |-> [name |-> accumulator[i].Name,
                                arguments |-> accumulator[i].Arguments]]>>
          ELSE <<>>) \o ToolCallsFrom(accumulator, i + 1)

\* the finish reason of the materialized response
NonStreamFinishReason(toolCalls, stopReason) ==
    IF toolCalls # <<>> THEN "tool_calls" ELSE mapAnthropicStopReasonToOpenAI(stopReason)

\* choices.0.message of the response
NonStreamMessage(content, toolCalls) ==
    IF toolCalls # <<>>
    THEN [role |-> "assistant", content |-> content, tool_calls |-> toolCalls]
    ELSE [role |-> "assistant", content |-> content]

\* the response built from the locals after the loop
NonStreamOut(s, content) ==
    LET toolCalls == ToolCallsFrom(s.toolCallsAccumulator, 0)
    IN  [id |-> s.messageID, object |-> "chat.completion", created |-> s.createdAt,
         model |-> s.model,
         message |-> NonStreamMessage(content, toolCalls),
         finish_reason |-> NonStreamFinishReason(toolCalls, s.stopReason),
         usage |-> s.usage]

\* the content of the message is the joined text: a string
ConvertClaudeResponseToOpenAINonStream(lines, t) ==
    LET s == NonStreamLoop(NonStreamLocals, lines, t)
    IN  NonStreamOut(s, [string |-> Join(s.contentParts)])

(***************************************************************************)
(* The same function in the translator that keeps reasoning items: the     *)
(* thinking of each block becomes one item of a content array              *)
(***************************************************************************)
ReasoningLocals ==
    [messageID |-> "", model |-> "", createdAt |-> 0, stopReason |-> "",
     outputTokens |-> 0, contentParts |-> <<>>,
     toolCallsMap |-> << >>, toolCallArgsMap |-> << >>,
     thinkingMap |-> << >>, thinkingTextMap |-> << >>, thinkingSignatureMap |-> << >>]

\* builder.WriteString on the builder of a map, when the map has one at the index
WriteString(builders, index, str) ==
    IF index \in DOMAIN builders THEN [builders EXCEPT ![index] = @ \o str] ELSE builders

ReasoningDelta(s, ev) ==
    IF ~ev.hasDelta
    THEN s
    ELSE CASE ev.deltaType = "text_delta" ->
                [s EXCEPT !.contentParts = Append(@, ev.payload)]
           [] ev.deltaType = "thinking_delta" ->
                [s EXCEPT !.thinkingTextMap = WriteString(@, ev.index, ev.payload)]
           [] ev.deltaType = "signature_delta" ->
                [s EXCEPT !.thinkingSignatureMap = WriteString(@, ev.index, ev.payload)]
           [] ev.deltaType = "input_json_delta" ->
                [s EXCEPT !.toolCallArgsMap = WriteString(@, ev.index, ev.payload)]
           [] OTHER -> s

ReasoningBlockStart(s, ev) ==
    IF ~ev.hasBlock
    THEN s
    ELSE IF ev.blockType = "thinking"
    THEN [s EXCEPT !.thinkingMap = MapPut(@, ev.index, [type |-> "reasoning",
                                                        text |-> [string |-> <<>>]]),
                   !.thinkingTextMap = MapPut(@, ev.index, <<>>),
                   !.thinkingSignatureMap = MapPut(@, ev.index, <<>>)]
    ELSE IF ev.blockType = "tool_use"
    THEN [s EXCEPT !.toolCallsMap =
                      MapPut(@, ev.index, [ID |-> ev.toolID, Name |-> ev.toolName,
                                           Arguments |-> <<>>]),
                   !.toolCallArgsMap = MapPut(@, ev.index, <<>>)]
    ELSE s

\* the text of a reasoning item is the JSON text of the thinking and its signature
ReasoningBlockStop(s, ev) ==
    LET s1 == IF ev.index \in DOMAIN s.toolCallsMap
              THEN [s EXCEPT !.toolCallsMap[ev.index].Arguments =
                        IF s.toolCallArgsMap[ev.index] = <<>>
                        THEN <<"{}">> ELSE s.toolCallArgsMap[ev.index]]
              ELSE s
    IN  IF ev.index \in DOMAIN s1.thinkingMap
        THEN [s1 EXCEPT !.thinkingMap[ev.index].text =
                  [json |-> [thinking |-> s1.thinkingTextMap[ev.index],
                             signature |-> s1.thinkingSignatureMap[ev.index]]]]
        ELSE s1

ReasoningLine(s, ev, t) ==
    IF ~ev.dataTag
    THEN s
    ELSE CASE ev.type = "message_start" ->
                IF ev.hasMessage
                THEN [s EXCEPT !.messageID = ev.messageID, !.model = modelName,
                               !.createdAt = t]
                ELSE s
           [] ev.type = "content_block_start" -> ReasoningBlockStart(s, ev)
           [] ev.type = "content_block_delta" -> ReasoningDelta(s, ev)
           [] ev.type = "content_block_stop" -> ReasoningBlockStop(s, ev)
           [] ev.type = "message_delta" ->
                [s EXCEPT !.stopReason = IF ev.hasDelta /\ ev.hasStopReason
                                         THEN ev.stopReason ELSE @,
                          !.outputTokens = IF ev.hasUsage
                                           THEN Counter(ev.usage, "output_tokens") ELSE @]
           [] OTHER -> s

RECURSIVE ReasoningLoop(_, _, _)
ReasoningLoop(s, lines, t) ==
    IF lines = <<>> THEN s ELSE ReasoningLoop(ReasoningLine(s, Head(lines), t), Tail(lines), t)

\* the reasoning items from index i up, in index order
RECURSIVE ThinkingBlocksFrom(_, _)
ThinkingBlocksFrom(thinkingMap, i) ==
    IF DOMAIN thinkingMap = {} \/ i > Max(DOMAIN thinkingMap)
    THEN <<>>
    ELSE (IF i \in DOMAIN thinkingMap THEN <<thinkingMap[i]>> ELSE <<>>)
             \o ThinkingBlocksFrom(thinkingMap, i + 1)

\* a content array when there was a thinking block, the joined text otherwise
ReasoningContent(s) ==
    IF DOMAIN s.thinkingMap # {}
    THEN [array |-> (IF s.contentParts # <<>>
                     THEN <<[type |-> "text", text |-> [string |-> Join(s.contentParts)]]>>
                     ELSE <<>>) \o ThinkingBlocksFrom(s.thinkingMap, 0)]
    ELSE [string |-> Join(s.contentParts)]

\* the estimate of the reasoning tokens in the usage is left out: it counts bytes
ConvertClaudeResponseToOpenAINonStreamReasoning(lines, t) ==
    LET s == ReasoningLoop(ReasoningLocals, lines, t)
        toolCalls == ToolCallsFrom(s.toolCallsMap, 0)
    IN  [id |-> s.messageID, object |-> "chat.completion", created |-> s.createdAt,
         model |-> s.model,
         message |-> NonStreamMessage(ReasoningContent(s), toolCalls),
         finish_reason |-> NonStreamFinishReason(toolCalls, s.stopReason),
         usage |-> [prompt_tokens |-> 0, completion_tokens |-> s.outputTokens,
                    total_tokens |-> s.outputTokens]]

(***************************************************************************)
(* One captured response: the lines go through the streaming translator   *)
(* one by one, and the capture is materialized as one completion           *)
(***************************************************************************)
MaxLines == 4

ArgFrags == {<<"{a">>, <<"b}">>}

MessageDelta(hasStopReason, stopReason, hasUsage, usage) ==
    [BaseEvent EXCEPT !.type = "message_delta", !.hasDelta = TRUE,
                      !.hasStopReason = hasStopReason, !.stopReason = stopReason,
                      !.hasUsage = hasUsage, !.usage = usage]

FullUsage ==
    [input_tokens |-> 3, output_tokens |-> 5, cache_read_input_tokens |-> 7,
     cache_creation_input_tokens |-> 2]

OutputUsage == [output_tokens |-> 5]

\* a thinking block at index 0, a tool block at index 1, text at index 2
ResponseEvents ==
    {MessageStart, BlockStart("thinking", 0), BlockStart("tool_use", 1),
     Delta("thinking_delta", 0, <<"x">>), Delta("text_delta", 2, <<"y">>),
     BlockStop(0), BlockStop(1),
     MessageDelta(TRUE, "end_turn", TRUE, FullUsage)}
    \cup {Delta("input_json_delta", 1, f) : f \in ArgFrags}

\* stop_reason null reads as the empty string; the last two events have no stop_reason
FinishEvents ==
    {MessageStart,
     MessageDelta(TRUE, "end_turn", TRUE, FullUsage),
     MessageDelta(TRUE, "tool_use", FALSE, << >>),
     MessageDelta(TRUE, "max_tokens", TRUE, OutputUsage),
     MessageDelta(TRUE, "stop_sequence", FALSE, << >>),
     MessageDelta(TRUE, "refusal", FALSE, << >>),
     MessageDelta(TRUE, "", FALSE, << >>),
     MessageDelta(FALSE, "", TRUE, FullUsage),
     [BaseEvent EXCEPT !.type = "message_delta"]}

InitResponse ==
    /\ now = 1
    /\ thinkingCache = << >>
    /\ CacheIdle
    /\ StreamIdle
    /\ RequestIdle
    /\ ApplyIdle
    /\ AliasIdle
    /\ AuxIdle

\* the translator is called with the next line of the response
Receive(ev) ==
    LET r == ConvertClaudeResponseToOpenAI(ev, param, thinkingCache, now)
    IN  /\ Len(events) < MaxLines
        /\ nonStream = << >>
        /\ param' = r.param
        /\ thinkingCache' = r.cache
        /\ events' = Append(events, ev)
        /\ chunks' = Append(chunks, r.out)
        /\ UNCHANGED <<now, clientText, parts, auxVars>>
        /\ UNCHANGED <<signatureCache, cacheRes, lastPut, lastTouch>>
        /\ UNCHANGED <<requestVars, applyVars, aliasVars>>

\* the captured lines are converted in one call, by either translator
Materialize ==
    /\ events # <<>>
    /\ nonStream = << >>
    /\ nonStream' = [out |-> ConvertClaudeResponseToOpenAINonStream(events, now),
                     reasoning |-> ConvertClaudeResponseToOpenAINonStreamReasoning(events, now)]
    /\ UNCHANGED <<now, cacheVars, streamVars, requestVars, applyVars, aliasVars>>
    /\ UNCHANGED <<sweeper, buckets, tasks, globals>>

NextResponse ==
    \/ \E ev \in ResponseEvents : Receive(ev)
    \/ Materialize

SpecResponse == InitResponse /\ [][NextResponse]_vars

NextFinish == \E ev \in FinishEvents : Receive(ev)

SpecFinish == InitResponse /\ [][NextFinish]_vars

(***************************************************************************)
(* Properties of the materialized response                                 *)
(***************************************************************************)
IsBlockStart(e, blockType, i) ==
    e.type = "content_block_start" /\ e.hasBlock /\ e.blockType = blockType /\ e.index = i

IsDelta(e, deltaType, i) ==
    e.type = "content_block_delta" /\ e.hasDelta /\ e.deltaType = deltaType /\ e.index = i

\* the position of the last start of a block of this type at index i before position k
LastStart(lines, blockType, i, k) ==
    LET S == {j \in 1..(k - 1) : IsBlockStart(lines[j], blockType, i)}
    IN  IF S = {} THEN 0 ELSE Max(S)

\* the fragments of one delta type at index i on the lines from..to, in order
RECURSIVE Fragments(_, _, _, _, _)
Fragments(lines, deltaType, i, from, to) ==
    IF from > to
    THEN <<>>
    ELSE (IF IsDelta(lines[from], deltaType, i) THEN lines[from].payload ELSE <<>>)
             \o Fragments(lines, deltaType, i, from + 1, to)

BlockIndices == {0, 1, 2}

ThinkingIndices(lines) ==
    {i \in BlockIndices : \E k \in 1..Len(lines) : IsBlockStart(lines[k], "thinking", i)}

\* the thinking text of the block at index i of a capture
ThinkingTextAt(lines, i) ==
    Fragments(lines, "thinking_delta", i,
              LastStart(lines, "thinking", i, Len(lines) + 1) + 1, Len(lines))

\* the text of a capture
TextOf(lines) ==
    Join([k \in 1..Len(lines) |->
             IF lines[k].type = "content_block_delta" /\ lines[k].deltaType = "text_delta"
             THEN lines[k].payload ELSE <<>>])

\* the block at index i was stopped after its last start and its last fragment
ThinkingStopped(lines, i) ==
    \E k \in 1..Len(lines) :
        /\ lines[k].type = "content_block_stop" /\ lines[k].index = i
        /\ LastStart(lines, "thinking", i, Len(lines) + 1) \in 1..(k - 1)
        /\ \A m \in (k + 1)..Len(lines) : ~IsDelta(lines[m], "thinking_delta", i)

\* the content is an array with one structured item that carries the thinking text
CarriesThinking(content, thinkingText) ==
    /\ "array" \in DOMAIN content
    /\ \E n \in 1..Len(content.array) :
          /\ content.array[n].type = "reasoning"
          /\ "json" \in DOMAIN content.array[n].text
          /\ content.array[n].text.json.thinking = thinkingText

\* the content is an array whose text item carries the text
CarriesText(content, text) ==
    /\ "array" \in DOMAIN content
    /\ text # <<>> =>
          \E n \in 1..Len(content.array) :
              content.array[n] = [type |-> "text", text |-> [string |-> text]]

\* C23: for every capture with a thinking block, the materialized response
\* carries the accumulated thinking text of each block as a structured item of
\* the content, alongside the accumulated text.
C23_StructuredThinking ==
    nonStream # << >> =>
        \A i \in ThinkingIndices(events) :
            /\ CarriesThinking(nonStream.out.message.content, ThinkingTextAt(events, i))
            /\ CarriesText(nonStream.out.message.content, TextOf(events))

\* the translator that keeps reasoning items does so for every block that was
\* stopped
C23_ReasoningItems ==
    nonStream # << >> =>
        \A i \in ThinkingIndices(events) :
            /\ ThinkingStopped(events, i) =>
                  CarriesThinking(nonStream.reasoning.message.content,
                                  ThinkingTextAt(events, i))
            /\ CarriesText(nonStream.reasoning.message.content, TextOf(events))

\* a capture with a stopped thinking block and text, whose response is a string
C23_WitnessDropped ==
    /\ nonStream # << >>
    /\ ThinkingStopped(events, 0)
    /\ ThinkingTextAt(events, 0) = <<"x">>
    /\ nonStream.out.message.content = [string |-> <<"y">>]
    /\ CarriesThinking(nonStream.reasoning.message.content, <<"x">>)

(***************************************************************************)
(* Properties of message_delta                                             *)
(***************************************************************************)
FinishTable ==
    [end_turn |-> "stop", tool_use |-> "tool_calls", max_tokens |-> "length",
     stop_sequence |-> "stop"]

\* the finish reason of the table, the generic one for a reason it does not hold
TableReason(stopReason) ==
    IF stopReason \in DOMAIN FinishTable THEN FinishTable[stopReason] ELSE "stop"

HasStopReason(e) == e.hasDelta /\ e.hasStopReason

\* every counter of the event is in the usage of the chunk with the same value
UsageCarried(e, chunk) ==
    e.hasUsage =>
        /\ "usage" \in DOMAIN chunk
        /\ \A counter \in DOMAIN e.usage : chunk.usage[counter] = e.usage[counter]

\* the original statement: the generic finish reason also when the event has no
\* stop reason
C24_FinishReasonAlways ==
    \A k \in 1..Len(events) :
        events[k].type = "message_delta" =>
            /\ Len(chunks[k]) = 1
            /\ chunks[k][1].finish_reason =
                  IF HasStopReason(events[k]) THEN TableReason(events[k].stopReason)
                  ELSE "stop"
            /\ UsageCarried(events[k], chunks[k][1])

\* C24: on message_delta the one chunk has the finish reason of the table for
\* the stop reason of the event, the generic "stop" for a stop reason the table
\* does not hold (an unknown one, an empty or null one), and no finish reason
\* (null) when the event has no stop_reason; the usage counters of the event are
\* in the usage of the chunk with their values.
C24_FinishReason ==
    \A k \in 1..Len(events) :
        events[k].type = "message_delta" =>
            /\ Len(chunks[k]) = 1
            /\ chunks[k][1].finish_reason =
                  IF HasStopReason(events[k]) THEN TableReason(events[k].stopReason)
                  ELSE "null"
            /\ UsageCarried(events[k], chunks[k][1])

\* a message_delta with max_tokens and one counter, after an unknown stop reason
C24_Witness ==
    /\ Len(events) >= 2
    /\ events[1] = MessageDelta(TRUE, "refusal", FALSE, << >>)
    /\ chunks[1][1].finish_reason = "stop"
    /\ events[2] = MessageDelta(TRUE, "max_tokens", TRUE, OutputUsage)
    /\ chunks[2][1].finish_reason = "length"
    /\ chunks[2][1].usage.output_tokens = 5

\* a message_delta without stop_reason: the chunk has no finish reason
C24_WitnessAbsent ==
    /\ Len(events) >= 1
    /\ events[1] = MessageDelta(FALSE, "", TRUE, FullUsage)
    /\ chunks[1][1].finish_reason = "null"
    /\ chunks[1][1].usage = FullUsage

(***************************************************************************)
(* Properties of message_start and of the tool calls                       *)
(***************************************************************************)
LastLine == events[Len(events)]

\* message_start took the identifier and the time and gave one chunk with the role
Captured ==
    /\ param.ResponseID = LastLine.messageID
    /\ param.CreatedAt = now
    /\ Len(chunks[Len(chunks)]) = 1
    /\ chunks[Len(chunks)][1].id = LastLine.messageID
    /\ chunks[Len(chunks)][1].created = now
    /\ chunks[Len(chunks)][1].delta.role = "assistant"

\* C29: immediately after any message_start the identifier and the creation
\* time are captured, exactly one chunk with role "assistant" was emitted, and
\* both accumulator maps are empty, even if blocks opened before were not
\* stopped.
C29_MessageStartResets ==
    (events # <<>> /\ LastLine.type = "message_start") =>
        /\ Captured
        /\ param.ToolCallsAccumulator = << >>
        /\ param.ThinkingAccumulator = << >>

\* the capture and the one chunk, without the reset
C29_MessageStartCaptures ==
    (events # <<>> /\ LastLine.type = "message_start") => Captured

\* a message_start after a tool block and a thinking block that were not stopped
C29_WitnessNotReset ==
    /\ Len(events) = 3
    /\ LastLine.type = "message_start"
    /\ Captured
    /\ DOMAIN param.ToolCallsAccumulator = {1}
    /\ DOMAIN param.ThinkingAccumulator = {0}

\* the tool block at index i that is open before line k: the position of its
\* start, 0 when no tool block is open at i
OpenTool(lines, i, k) ==
    LET j == LastStart(lines, "tool_use", i, k)
    IN  IF j > 0 /\ \A m \in (j + 1)..(k - 1) :
                        ~(lines[m].type = "content_block_stop" /\ lines[m].index = i)
        THEN j
        ELSE 0

HasToolCalls(out) ==
    \E n \in 1..Len(out) : "delta" \in DOMAIN out[n] /\ "tool_calls" \in DOMAIN out[n].delta

\* the one whole tool call of the block started at line j and stopped at line k
WholeToolCall(lines, j, k) ==
    LET arguments == Fragments(lines, "input_json_delta", lines[j].index, j + 1, k - 1)
    IN  [index |-> lines[j].index, id |-> lines[j].toolID, type |-> "function",
         function |-> [name |-> lines[j].toolName,
                       arguments |-> IF arguments = <<>> THEN <<"{}">> ELSE arguments]]

\* C30: the start of a tool block and every tool-argument delta emit nothing;
\* the stop of an open tool block emits exactly one chunk, whose tool call has
\* the id and name of the block and the in-order concatenation of its argument
\* fragments, "{}" when it is empty; no other line emits a tool call.
C30_WholeToolCalls ==
    \A k \in 1..Len(events) :
        LET e == events[k]
            j == OpenTool(events, e.index, k)
        IN  /\ (IsBlockStart(e, "tool_use", e.index) \/ IsDelta(e, "input_json_delta", e.index))
                   => chunks[k] = <<>>
            /\ IF e.type = "content_block_stop" /\ j > 0
               THEN /\ Len(chunks[k]) = 1
                    /\ chunks[k][1].delta.tool_calls = <<WholeToolCall(events, j, k)>>
               ELSE ~HasToolCalls(chunks[k])

\* a tool block with two argument fragments, emitted whole at its stop
C30_Witness ==
    /\ Len(events) = 4
    /\ events[1] = BlockStart("tool_use", 1)
    /\ events[2] = Delta("input_json_delta", 1, <<"{a">>)
    /\ events[3] = Delta("input_json_delta", 1, <<"b}">>)
    /\ events[4] = BlockStop(1)
    /\ chunks[2] = <<>> /\ chunks[3] = <<>>
    /\ chunks[4][1].delta.tool_calls[1].function.arguments = <<"{a", "b}">>

\* a tool block without arguments
C30_WitnessEmpty ==
    /\ Len(events) = 2
    /\ events[1] = BlockStart("tool_use", 1)
    /\ events[2] = BlockStop(1)
    /\ chunks[2][1].delta.tool_calls[1].function.arguments = <<"{}">>

(***************************************************************************)
(* The signature cache keyed by model group: group -> textHash -> entry.   *)
(* A model name is a sequence of tokens, and so is the key of its group.   *)
(***************************************************************************)
\* a grouping that keeps every model name apart
GetModelGroup_ByName(model) == model

GetModelGroup(model) ==
    IF Contains(model, <<"gpt">>) THEN <<"gpt">>
    ELSE IF Contains(model, <<"claude">>) THEN <<"claude">>
    ELSE IF Contains(model, <<"gemini">>) THEN <<"gemini">>
    ELSE model

SkipValidator == <<"skip_thought_signature_validator">>

\* what a lookup of this group returns when it finds nothing
MissOfGroup(groupKey) == IF groupKey = <<"gemini">> THEN SkipValidator ELSE <<>>

\* getOrCreateGroupCache: the top-level map with a bucket for the group
getOrCreateGroupCache(sc, groupKey) ==
    IF groupKey \in DOMAIN sc THEN sc ELSE MapPut(sc, groupKey, << >>)

\* CacheSignature(model, text, signature): the cache after the call
CacheSignatureOfModel(sc, model, text, signature, t) ==
    IF text = <<>> \/ signature = <<>>
    THEN sc
    ELSE IF ByteLen(signature) < MinValidSignatureLen
    THEN sc
    ELSE LET groupKey == GetModelGroup(model)
             withGroup == getOrCreateGroupCache(sc, groupKey)
         IN  [withGroup EXCEPT ![groupKey] =
                 MapPut(@, hashText(text), [Signature |-> signature, Timestamp |-> t])]

\* GetCachedSignature(model, text): the signature returned and the cache
\* after the call
GetCachedSignatureOfModel(sc, model, text, t) ==
    LET groupKey == GetModelGroup(model)
        textHash == hashText(text)
    IN  IF text = <<>> \/ groupKey \notin DOMAIN sc
        THEN [ret |-> MissOfGroup(groupKey), cache |-> sc]
        ELSE IF textHash \notin DOMAIN sc[groupKey]
        THEN [ret |-> MissOfGroup(groupKey), cache |-> sc]
        ELSE IF t - sc[groupKey][textHash].Timestamp > SignatureCacheTTL
        THEN [ret |-> MissOfGroup(groupKey),
              cache |-> [sc EXCEPT ![groupKey] = MapDelete(@, textHash)]]
        ELSE [ret |-> sc[groupKey][textHash].Signature,
              cache |-> [sc EXCEPT ![groupKey][textHash].Timestamp = t]]

\* the entries of a bucket that have not expired
LiveEntries(bucket, t) ==
    [h \in {k \in DOMAIN bucket : t - bucket[k].Timestamp <= SignatureCacheTTL} |-> bucket[h]]

\* purgeExpiredCaches, when no other call runs during the pass: expired entries
\* are deleted, and then every bucket that is empty
purgeExpiredCaches(sc, t) ==
    [key \in {k \in DOMAIN sc : DOMAIN LiveEntries(sc[k], t) # {}} |->
        LiveEntries(sc[key], t)]

(***************************************************************************)
(* The group-keyed cache next to a cache keyed by (family, hash of text)   *)
(***************************************************************************)
ModelNames == {<<"claude", "a">>, <<"claude", "b">>, <<"gemini", "a">>, <<"o3">>}
GroupTexts == {<<"x">>}
GroupSigs == {<<SIGA, SIGB>>, <<SIGB, SIGA>>}

\* the backend family of each model name of ModelNames
FamilyOf(model) ==
    CASE model[1] = "claude" -> "Claude"
      [] model[1] = "gemini" -> "Gemini"
      [] OTHER -> "other"

FamilyKey(model, text) == <<FamilyOf(model), hashText(text)>>

\* the cache keyed by the extended key: store
StoreByKey(cache, key, signature, t) ==
    MapPut(cache, key, [Signature |-> signature, Timestamp |-> t])

\* the cache keyed by the extended key: lookup, with sliding expiration
LookupByKey(cache, key, t) ==
    IF key \notin DOMAIN cache
    THEN [ret |-> <<>>, cache |-> cache]
    ELSE IF t - cache[key].Timestamp > SignatureCacheTTL
    THEN [ret |-> <<>>, cache |-> MapDelete(cache, key)]
    ELSE [ret |-> cache[key].Signature, cache |-> [cache EXCEPT ![key].Timestamp = t]]

\* both caches start empty; lastPut holds the cache keyed by the extended key
InitFamily == InitCache

StoreOfModel(model, text, signature) ==
    /\ signatureCache' = CacheSignatureOfModel(signatureCache, model, text, signature, now)
    /\ lastPut' = StoreByKey(lastPut, FamilyKey(model, text), signature, now)
    /\ cacheRes' = [op |-> "store"]
    /\ UNCHANGED <<now, thinkingCache, lastTouch>>
    /\ UNCHANGED <<streamVars, requestVars, applyVars, aliasVars, auxVars>>

LookupOfModel(model, text) ==
    LET r == GetCachedSignatureOfModel(signatureCache, model, text, now)
        byKey == LookupByKey(lastPut, FamilyKey(model, text), now)
    IN  /\ signatureCache' = r.cache
        /\ lastPut' = byKey.cache
        /\ cacheRes' = [op |-> "lookup", model |-> model, ret |-> r.ret,
                        byKey |-> byKey.ret]
        /\ UNCHANGED <<now, thinkingCache, lastTouch>>
        /\ UNCHANGED <<streamVars, requestVars, applyVars, aliasVars, auxVars>>

\* one pass of the cleanup goroutine
SweepGroups ==
    /\ signatureCache' = purgeExpiredCaches(signatureCache, now)
    /\ cacheRes' = [op |-> "sweep"]
    /\ UNCHANGED <<now, thinkingCache, lastPut, lastTouch>>
    /\ UNCHANGED <<streamVars, requestVars, applyVars, aliasVars, auxVars>>

NextFamily ==
    \/ Tick
    \/ \E m \in ModelNames, text \in GroupTexts, signature \in GroupSigs :
            StoreOfModel(m, text, signature)
    \/ \E m \in ModelNames, text \in GroupTexts : LookupOfModel(m, text)
    \/ SweepGroups

SpecFamily == InitFamily /\ [][NextFamily]_vars

C25_WitnessGeminiMiss ==
    /\ cacheRes.op = "lookup"
    /\ cacheRes.model = <<"gemini", "a">>
    /\ cacheRes.ret = SkipValidator
    /\ cacheRes.byKey = <<>>

(***************************************************************************)
(* The session-keyed signature cache and the thinking cache with the       *)
(* cleanup goroutine: time passes and the ticker fires again and again     *)
(***************************************************************************)
\* purgeExpiredSessions, when no other call runs during the pass: expired
\* entries are deleted, and then every session that is empty
purgeExpiredSessions(sc, t) ==
    [key \in {k \in DOMAIN sc : DOMAIN LiveEntries(sc[k], t) # {}} |->
        LiveEntries(sc[key], t)]

\* the goroutine is not started before the first getOrCreateSession
InitSweep ==
    /\ now = 0
    /\ thinkingCache = << >>
    /\ CacheIdle
    /\ StreamIdle
    /\ RequestIdle
    /\ ApplyIdle
    /\ AliasIdle
    /\ nonStream = << >>
    /\ sweeper = [started |-> FALSE]
    /\ buckets = << >>
    /\ tasks = << >>
    /\ globals = << >>

\* CacheSignature: a call that reaches getOrCreateSession starts the goroutine
StoreSignature(sessionID, text, signature) ==
    /\ signatureCache' = CacheSignature(signatureCache, sessionID, text, signature, now)
    /\ sweeper' = IF sessionID # "" /\ text # <<>> /\ HasValidSignature(signature)
                  THEN [started |-> TRUE]
                  ELSE sweeper
    /\ cacheRes' = [op |-> "putsig", id |-> SigKey(sessionID, text)]
    /\ UNCHANGED <<now, thinkingCache, lastPut, lastTouch>>
    /\ UNCHANGED <<streamVars, requestVars, applyVars, aliasVars>>
    /\ UNCHANGED <<nonStream, buckets, tasks, globals>>

\* CacheThinking
KeepThinking(text, signature) ==
    /\ thinkingCache' = CacheThinking(thinkingCache, GenerateThinkingID(text), text,
                                      signature, now)
    /\ cacheRes' = [op |-> "put", id |-> GenerateThinkingID(text)]
    /\ UNCHANGED <<now, signatureCache, lastPut, lastTouch>>
    /\ UNCHANGED <<streamVars, requestVars, applyVars, aliasVars, auxVars>>

\* GetCachedSignature
LookupSignature(sessionID, text) ==
    LET r == GetCachedSignature(signatureCache, sessionID, text, now)
    IN  /\ signatureCache' = r.cache
        /\ cacheRes' = [op |-> "getsig", id |-> SigKey(sessionID, text), ret |-> r.ret]
        /\ UNCHANGED <<now, thinkingCache, lastPut, lastTouch>>
        /\ UNCHANGED <<streamVars, requestVars, applyVars, aliasVars, auxVars>>

\* GetCachedThinking
LookupThinking(id) ==
    LET r == GetCachedThinking(thinkingCache, id, now)
    IN  /\ thinkingCache' = r.cache
        /\ cacheRes' = [op |-> "get", id |-> id, ret |-> r.ret]
        /\ UNCHANGED <<now, signatureCache, lastPut, lastTouch>>
        /\ UNCHANGED <<streamVars, requestVars, applyVars, aliasVars, auxVars>>

\* the ticker of the goroutine fires: one pass of purgeExpiredSessions
SweepSessions ==
    /\ sweeper.started
    /\ signatureCache' = purgeExpiredSessions(signatureCache, now)
    /\ cacheRes' = [op |-> "sweep"]
    /\ UNCHANGED <<now, thinkingCache, lastPut, lastTouch>>
    /\ UNCHANGED <<streamVars, requestVars, applyVars, aliasVars, auxVars>>

SweepTexts == {<<"x">>, <<"y">>}

NextSweep ==
    \/ Tick
    \/ \E s \in Sessions, text \in SweepTexts, signature \in SigSigs :
            StoreSignature(s, text, signature)
    \/ \E text \in SweepTexts, signature \in SigSigs : KeepThinking(text, signature)
    \/ \E s \in Sessions, text \in SweepTexts : LookupSignature(s, text)
    \/ \E text \in SweepTexts : LookupThinking(GenerateThinkingID(text))
    \/ SweepSessions

SpecSweep == InitSweep /\ [][NextSweep]_vars

\* the clock goes on and the ticker keeps firing; nobody has to call the cache
SpecSweepFair == SpecSweep /\ WF_vars(Tick) /\ WF_vars(SweepSessions)

\* the entry of the signature cache under this key is past its TTL
SignatureExpired(key) ==
    /\ SigStored(key)
    /\ now - signatureCache[key[1]][key[2]].Timestamp > SignatureCacheTTL

\* the entry of the thinking cache under this identifier is past its TTL
ThinkingExpired(id) ==
    /\ id \in DOMAIN thinkingCache
    /\ now - thinkingCache[id].Timestamp > ThinkingCacheTTL

SweepKeys == {SigKey(s, text) : s \in Sessions, text \in SweepTexts}
SweepIDs == {GenerateThinkingID(text) : text \in SweepTexts}

\* C26: no entry, of the signature cache or of the thinking cache, stays in the
\* cache past its TTL for ever, whether it is looked up or not; and no session
\* stays in the top-level map without entries for ever.
C26_EventuallyEvicted ==
    /\ \A key \in SweepKeys : []<>(~SignatureExpired(key))
    /\ \A id \in SweepIDs : []<>(~ThinkingExpired(id))
    /\ \A s \in Sessions : []<>(~(s \in DOMAIN signatureCache /\ signatureCache[s] = << >>))

\* the part of it that is about the signature cache
C26_SignaturesEvicted ==
    /\ \A key \in SweepKeys : []<>(~SignatureExpired(key))
    /\ \A s \in Sessions : []<>(~(s \in DOMAIN signatureCache /\ signatureCache[s] = << >>))

\* an expired thinking entry while the goroutine runs and the signature cache
\* has been swept empty
C26_WitnessThinkingStays ==
    /\ sweeper.started
    /\ cacheRes.op = "sweep"
    /\ signatureCache = << >>
    /\ \E id \in SweepIDs : ThinkingExpired(id)

(***************************************************************************)
(* The top-level map under concurrent calls: signatureCache maps a session *)
(* to a pointer, buckets holds the entries behind each pointer.  A step is *)
(* one operation of sync.Map or one critical section of a bucket.          *)
(***************************************************************************)
\* each task calls CacheSignature once
Tasks == {1, 2, 3}

\* sc is the pointer the task holds, 0 when it holds none
IdleTask ==
    [pc |-> "idle", sessionID |-> "", text |-> <<>>, signature |-> <<>>,
     sc |-> 0, inMap |-> TRUE, at |-> 0]

InitBuckets ==
    /\ now = 0
    /\ thinkingCache = << >>
    /\ CacheIdle
    /\ StreamIdle
    /\ RequestIdle
    /\ ApplyIdle
    /\ AliasIdle
    /\ nonStream = << >>
    /\ sweeper = [started |-> FALSE, pc |-> "idle", key |-> "", deleted |-> FALSE]
    /\ buckets = << >>
    /\ tasks = [p \in Tasks |-> IdleTask]
    /\ globals = << >>

BucketFrame ==
    /\ UNCHANGED <<thinkingCache, cacheRes, lastPut, lastTouch>>
    /\ UNCHANGED <<streamVars, requestVars, applyVars, aliasVars, nonStream, globals>>

\* the map holds this pointer under this key
Installed(key, pointer) == key \in DOMAIN signatureCache /\ signatureCache[key] = pointer

\* CacheSignature is entered with arguments that pass its checks, and
\* getOrCreateSession runs sessionCleanupOnce.Do
EnterCacheSignature(p, sessionID, text, signature) ==
    /\ tasks[p].pc = "idle"
    /\ sessionID # "" /\ text # <<>> /\ HasValidSignature(signature)
    /\ tasks' = [tasks EXCEPT ![p] = [@ EXCEPT !.pc = "Load", !.sessionID = sessionID,
                                                !.text = text, !.signature = signature,
                                                !.sc = 0]]
    /\ sweeper' = [sweeper EXCEPT !.started = TRUE]
    /\ UNCHANGED <<now, signatureCache, buckets>>
    /\ BucketFrame

\* signatureCache.Load(sessionID)
LoadSession(p) ==
    /\ tasks[p].pc = "Load"
    /\ tasks' = [tasks EXCEPT ![p] =
                    IF tasks[p].sessionID \in DOMAIN signatureCache
                    THEN [@ EXCEPT !.pc = "Lock", !.sc = signatureCache[tasks[p].sessionID]]
                    ELSE [@ EXCEPT !.pc = "LoadOrStore"]]
    /\ UNCHANGED <<now, signatureCache, buckets, sweeper>>
    /\ BucketFrame

\* a LoadOrStore that stores its bucket even when the key has one
LoadOrStoreSession_Store(p) ==
    LET fresh == Cardinality(DOMAIN buckets) + 1
        key == tasks[p].sessionID
    IN  /\ tasks[p].pc = "LoadOrStore"
        /\ buckets' = MapPut(buckets, fresh, << >>)
        /\ signatureCache' = MapPut(signatureCache, key, fresh)
        /\ tasks' = [tasks EXCEPT ![p] = [@ EXCEPT !.pc = "Lock", !.sc = fresh]]
        /\ UNCHANGED <<now, sweeper>>
        /\ BucketFrame

\* a new sessionCache, then signatureCache.LoadOrStore(sessionID, sc)
LoadOrStoreSession(p) ==
    LET fresh == Cardinality(DOMAIN buckets) + 1
        key == tasks[p].sessionID
    IN  /\ tasks[p].pc = "LoadOrStore"
        /\ buckets' = MapPut(buckets, fresh, << >>)
        /\ signatureCache' = IF key \in DOMAIN signatureCache
                             THEN signatureCache
                             ELSE MapPut(signatureCache, key, fresh)
        /\ tasks' = [tasks EXCEPT ![p] = [@ EXCEPT !.pc = "Lock", !.sc = signatureCache'[key]]]
        /\ UNCHANGED <<now, sweeper>>
        /\ BucketFrame

\* sc.mu.Lock, the entry is written, sc.mu.Unlock; inMap tells whether the
\* bucket was the one of the map when the entry was written, at tells when
WriteEntry(p) ==
    /\ tasks[p].pc = "Lock"
    /\ buckets' = [buckets EXCEPT ![tasks[p].sc] =
                      MapPut(@, hashText(tasks[p].text),
                             [Signature |-> tasks[p].signature, Timestamp |-> now])]
    /\ tasks' = [tasks EXCEPT ![p] =
                    [@ EXCEPT !.pc = "done", !.at = now,
                              !.inMap = Installed(tasks[p].sessionID, tasks[p].sc)]]
    /\ UNCHANGED <<now, signatureCache, sweeper>>
    /\ BucketFrame

\* purgeExpiredSessions at one key of the Range: the critical section that
\* deletes the expired entries and computes isEmpty
SweepBucket(key) ==
    LET pointer == signatureCache[key]
        live == LiveEntries(buckets[pointer], now)
    IN  /\ sweeper.started
        /\ sweeper.pc = "idle"
        /\ key \in DOMAIN signatureCache
        /\ buckets' = [buckets EXCEPT ![pointer] = live]
        /\ sweeper' = IF DOMAIN live = {}
                      THEN [sweeper EXCEPT !.pc = "Delete", !.key = key]
                      ELSE sweeper
        /\ UNCHANGED <<now, signatureCache, tasks>>
        /\ BucketFrame

\* signatureCache.Delete(key), after the lock of the bucket was released
DeleteSession ==
    /\ sweeper.pc = "Delete"
    /\ signatureCache' = MapDelete(signatureCache, sweeper.key)
    /\ sweeper' = [sweeper EXCEPT !.pc = "idle", !.key = "", !.deleted = TRUE]
    /\ UNCHANGED <<now, buckets, tasks>>
    /\ BucketFrame

\* the clock advances past the TTL: what is stored has expired
BucketTick ==
    /\ now + SignatureCacheTTL + 1 <= MaxTime
    /\ now' = now + SignatureCacheTTL + 1
    /\ UNCHANGED <<signatureCache, buckets, tasks, sweeper>>
    /\ BucketFrame

BucketSig == <<SIGA, SIGB>>

NextBuckets ==
    \/ \E p \in Tasks, s \in Sessions, text \in SweepTexts :
            EnterCacheSignature(p, s, text, BucketSig)
    \/ \E p \in Tasks : LoadSession(p)
    \/ \E p \in Tasks : LoadOrStoreSession(p)
    \/ \E p \in Tasks : WriteEntry(p)
    \/ \E s \in Sessions : SweepBucket(s)
    \/ DeleteSession
    \/ BucketTick

SpecBuckets == InitBuckets /\ [][NextBuckets]_vars

\* the task holds the pointer that getOrCreateSession returned
HasBucket(p) == tasks[p].pc = "Lock"

\* C27: every caller obtains the bucket of the top-level map, and every entry
\* is written into the bucket that the map holds under the key at that time.
C27_WritesIntoInstalledBucket ==
    \A p \in Tasks :
        /\ HasBucket(p) => Installed(tasks[p].sessionID, tasks[p].sc)
        /\ tasks[p].inMap

\* as long as the cleanup has deleted no session: callers that race on a key
\* without bucket obtain one and the same bucket, the one of the map
C27_InsertIfAbsentAtomic ==
    ~sweeper.deleted =>
        \A p \in Tasks :
            /\ HasBucket(p) => Installed(tasks[p].sessionID, tasks[p].sc)
            /\ tasks[p].inMap

\* the three tasks missed at Load, one stored its bucket and all hold it
C27_WitnessRace ==
    /\ ~sweeper.deleted
    /\ Cardinality(DOMAIN buckets) = 3
    /\ \A p \in Tasks : HasBucket(p) /\ tasks[p].sc = 1

\* an entry written into a bucket that the cleanup had taken out of the map
C27_WitnessOrphan ==
    \E p \in Tasks :
        /\ ~tasks[p].inMap
        /\ tasks[p].pc = "done"
        /\ "s1" \notin DOMAIN signatureCache
        /\ DOMAIN buckets = {1}
        /\ DOMAIN buckets[1] # {}

(***************************************************************************)
(* The package variables account, session and user of the reverse          *)
(* translator under concurrent calls of ConvertOpenAIRequestToClaude.  A   *)
(* step is one read or one write of a variable; user is the digest of the  *)
(* pair it was computed from, the empty sequence while it is "".           *)
(***************************************************************************)
Callers == {1, 2}

\* uuid.NewRandom() of each caller, for the account and for the session
AccountUUID == <<"a1", "a2">>
SessionUUID == <<"s1", "s2">>

\* hex(sha256(account + session))
UserOf(acc, sess) == <<acc, sess>>

NoUserID == [user |-> <<>>, account |-> "", session |-> ""]

IdleCaller == [pc |-> "idle", sum |-> <<>>, userID |-> NoUserID]

InitUserID ==
    /\ now = 0
    /\ thinkingCache = << >>
    /\ CacheIdle
    /\ StreamIdle
    /\ RequestIdle
    /\ ApplyIdle
    /\ AliasIdle
    /\ nonStream = << >>
    /\ sweeper = << >>
    /\ buckets = << >>
    /\ tasks = [p \in Callers |-> IdleCaller]
    /\ globals = [user |-> <<>>, account |-> "", session |-> "", overlapped |-> FALSE]

UserFrame ==
    /\ UNCHANGED <<now, cacheVars, streamVars, requestVars, applyVars, aliasVars>>
    /\ UNCHANGED <<nonStream, sweeper, buckets>>

Goto(p, pc) == tasks' = [tasks EXCEPT ![p].pc = pc]

\* a call starts; overlapped records that another call was under way
EnterConvert(p) ==
    /\ tasks[p].pc = "idle"
    /\ Goto(p, "account")
    /\ globals' = [globals EXCEPT !.overlapped =
                      @ \/ \E q \in Callers \ {p} : tasks[q].pc \notin {"idle", "done"}]
    /\ UserFrame

\* if account == ""
TestAccount(p) ==
    /\ tasks[p].pc = "account"
    /\ Goto(p, IF globals.account = "" THEN "newAccount" ELSE "session")
    /\ UNCHANGED globals
    /\ UserFrame

\* account = u.String()
SetAccount(p) ==
    /\ tasks[p].pc = "newAccount"
    /\ globals' = [globals EXCEPT !.account = AccountUUID[p]]
    /\ Goto(p, "session")
    /\ UserFrame

\* if session == ""
TestSession(p) ==
    /\ tasks[p].pc = "session"
    /\ Goto(p, IF globals.session = "" THEN "newSession" ELSE "user")
    /\ UNCHANGED globals
    /\ UserFrame

\* session = u.String()
SetSession(p) ==
    /\ tasks[p].pc = "newSession"
    /\ globals' = [globals EXCEPT !.session = SessionUUID[p]]
    /\ Goto(p, "user")
    /\ UserFrame

\* if user == ""
TestUser(p) ==
    /\ tasks[p].pc = "user"
    /\ Goto(p, IF globals.user = <<>> THEN "sum" ELSE "format")
    /\ UNCHANGED globals
    /\ UserFrame

\* sum := sha256.Sum256([]byte(account + session))
SumUser(p) ==
    /\ tasks[p].pc = "sum"
    /\ tasks' = [tasks EXCEPT ![p] = [@ EXCEPT !.pc = "newUser",
                                                !.sum = UserOf(globals.account, globals.session)]]
    /\ UNCHANGED globals
    /\ UserFrame

\* user = hex.EncodeToString(sum[:])
SetUser(p) ==
    /\ tasks[p].pc = "newUser"
    /\ globals' = [globals EXCEPT !.user = tasks[p].sum]
    /\ Goto(p, "format")
    /\ UserFrame

\* userID := fmt.Sprintf("user_%s_account_%s_session_%s", user, account, session)
FormatUserID(p) ==
    /\ tasks[p].pc = "format"
    /\ tasks' = [tasks EXCEPT ![p] =
                    [@ EXCEPT !.pc = "done",
                              !.userID = [user |-> globals.user, account |-> globals.account,
                                          session |-> globals.session]]]
    /\ UNCHANGED globals
    /\ UserFrame

\* the request is built and the task is free for the next request
ReturnRequest(p) ==
    /\ tasks[p].pc = "done"
    /\ \A q \in Callers : tasks[q].pc \in {"idle", "done"}
    /\ Goto(p, "idle")
    /\ UNCHANGED globals
    /\ UserFrame

NextUserID ==
    \E p \in Callers :
        \/ EnterConvert(p)
        \/ TestAccount(p)
        \/ SetAccount(p)
        \/ TestSession(p)
        \/ SetSession(p)
        \/ TestUser(p)
        \/ SumUser(p)
        \/ SetUser(p)
        \/ FormatUserID(p)
        \/ ReturnRequest(p)

SpecUserID == InitUserID /\ [][NextUserID]_vars

Built(p) == tasks[p].userID # NoUserID

\* the user part is the digest of the account and session it is emitted with
Consistent(userID) == userID.user = UserOf(userID.account, userID.session)

\* C28: all requests built in one process carry the same metadata.user_id, and
\* its user part is the digest of the account and the session it is emitted
\* with, also for the calls that race on the first call.
C28_SameUserID ==
    \A p \in Callers :
        Built(p) =>
            /\ Consistent(tasks[p].userID)
            /\ \A q \in Callers : Built(q) => tasks[q].userID = tasks[p].userID

\* the same for calls that never overlap
C28_SameUserIDInSequence ==
    ~globals.overlapped =>
        \A p \in Callers :
            Built(p) =>
                /\ Consistent(tasks[p].userID)
                /\ \A q \in Callers : Built(q) => tasks[q].userID = tasks[p].userID

\* two calls one after the other, both with the user_id of the first
C28_WitnessSequence ==
    /\ ~globals.overlapped
    /\ \A p \in Callers : tasks[p].pc = "done"
    /\ tasks[2].userID = [user |-> UserOf("a1", "s1"), account |-> "a1", session |-> "s1"]

\* two racing first calls: a user_id whose user part is the digest of another
\* account than the one next to it
C28_WitnessTorn ==
    \E p \in Callers :
        /\ Built(p)
        /\ tasks[p].userID.user = UserOf("a1", "s1")
        /\ tasks[p].userID.account = "a2"

(***************************************************************************)
(* Blocks over two indices: thinking blocks at 0 and 1, a tool block that  *)
(* shares index 0, in any order and any number of times                    *)
(***************************************************************************)
BlockEvents ==
    {BlockStart("thinking", 0), BlockStart("thinking", 1), BlockStart("tool_use", 0),
     Delta("thinking_delta", 0, <<"x">>), Delta("thinking_delta", 0, <<"y">>),
     Delta("thinking_delta", 1, <<"y">>),
     Delta("signature_delta", 0, <<SIGA, SIGB>>),
     BlockStop(0), BlockStop(1)}

NextBlocks == \E ev \in BlockEvents : Receive(ev)

SpecBlocks == InitResponse /\ [][NextBlocks]_vars

IsStop(e, i) == e.type = "content_block_stop" /\ e.index = i

\* the thinking block at index i that is open before line k: the position of
\* its last start, 0 when none is open.  A stop at i closes the tool block of i
\* when one is open, the thinking block otherwise.
OpenThinking(lines, i, k) ==
    LET j == LastStart(lines, "thinking", i, k)
    IN  IF j > 0 /\ \A m \in (j + 1)..(k - 1) :
                        ~(IsStop(lines[m], i) /\ OpenTool(lines, i, m) = 0)
        THEN j
        ELSE 0

\* the thinking fragments of index i between line j and line k, in order
ThinkingBetween(lines, i, j, k) == Fragments(lines, "thinking_delta", i, j + 1, k - 1)

\* line k is a stop that closes the thinking block of its index
ClosesThinking(lines, k) ==
    /\ lines[k].type = "content_block_stop"
    /\ OpenTool(lines, lines[k].index, k) = 0
    /\ OpenThinking(lines, lines[k].index, k) > 0

\* the text the stop at line k closes: the fragments since the start of its block
ClosedText(lines, k) ==
    ThinkingBetween(lines, lines[k].index, OpenThinking(lines, lines[k].index, k), k)

C31_WitnessOtherIndex ==
    /\ Len(events) = 4
    /\ events[1] = BlockStart("thinking", 0)
    /\ events[2] = Delta("thinking_delta", 1, <<"y">>)
    /\ events[3] = Delta("thinking_delta", 0, <<"x">>)
    /\ events[4] = BlockStop(0)
    /\ chunks[2][1].delta.content = <<"y">>
    /\ chunks[4][1].delta.content = ClosingContent(GenerateThinkingID(<<"x">>))

C31_WitnessRestarted ==
    /\ Len(events) = 4
    /\ events[1] = BlockStart("thinking", 0)
    /\ events[2] = Delta("thinking_delta", 0, <<"x">>)
    /\ events[3] = BlockStart("thinking", 0)
    /\ events[4] = Delta("thinking_delta", 0, <<"y">>)
    /\ param.ThinkingAccumulator[0].Thinking = <<"y">>

(***************************************************************************)
(* The stop of a thinking block and the cache                              *)
(***************************************************************************)
\* the signature fragments of the block the stop at line k closes
ClosedSignature(lines, k) ==
    Fragments(lines, "signature_delta", lines[k].index,
              OpenThinking(lines, lines[k].index, k) + 1, k - 1)

\* the identifier between the tag and the fence of a closing chunk
EmbeddedID(out) == SubSeq(out[1].delta.content, 6, Len(out[1].delta.content) - 2)

\* the cache holds the text and the signature under the identifier
Holds(cache, thinkingID, text, signature) ==
    /\ thinkingID \in DOMAIN cache
    /\ cache[thinkingID].ThinkingText = text
    /\ cache[thinkingID].Signature = signature

\* C32: when the last line is the stop of a thinking block, the closing chunk
\* embeds hash(accumulated text) and the cache holds, under that identifier,
\* the accumulated text and the accumulated signature: no closing chunk
\* carries an identifier that the cache does not hold.
C32_ClosingIdentifierCached ==
    (events # <<>> /\ ClosesThinking(events, Len(events))) =>
        LET k == Len(events)
            text == ClosedText(events, k)
        IN  /\ OneContentChunk(chunks[k], ClosingContent(GenerateThinkingID(text)))
            /\ EmbeddedID(chunks[k]) = GenerateThinkingID(text)
            /\ Holds(thinkingCache, EmbeddedID(chunks[k]), text, ClosedSignature(events, k))

\* the same for the blocks that received thinking text
C32_NonEmptyTextCached ==
    (events # <<>> /\ ClosesThinking(events, Len(events))
        /\ ClosedText(events, Len(events)) # <<>>) =>
        LET k == Len(events)
            text == ClosedText(events, k)
        IN  /\ EmbeddedID(chunks[k]) = GenerateThinkingID(text)
            /\ Holds(thinkingCache, EmbeddedID(chunks[k]), text, ClosedSignature(events, k))

\* a block with text and signature was closed and cached
C32_WitnessCached ==
    /\ Len(events) = 4
    /\ events[1] = BlockStart("thinking", 0)
    /\ events[2] = Delta("thinking_delta", 0, <<"x">>)
    /\ events[3] = Delta("signature_delta", 0, <<SIGA, SIGB>>)
    /\ events[4] = BlockStop(0)
    /\ Holds(thinkingCache, EmbeddedID(chunks[4]), <<"x">>, <<SIGA, SIGB>>)

\* a block that received a signature and no text: its closing chunk carries
\* the hash of the empty text, which the cache does not hold
C32_WitnessEmptyText ==
    /\ Len(events) = 3
    /\ events[1] = BlockStart("thinking", 0)
    /\ events[2] = Delta("signature_delta", 0, <<SIGA, SIGB>>)
    /\ events[3] = BlockStop(0)
    /\ EmbeddedID(chunks[3]) = GenerateThinkingID(<<>>)
    /\ EmbeddedID(chunks[3]) \notin DOMAIN thinkingCache

(***************************************************************************)
(* The life of an accumulator                                              *)
(***************************************************************************)
\* a block was started at index i and no stop of i has followed
StartedNotStopped(lines, i) ==
    \E j \in 1..Len(lines) :
        /\ lines[j].type = "content_block_start" /\ lines[j].index = i
        /\ \A m \in (j + 1)..Len(lines) : ~IsStop(lines[m], i)

StreamIndices == {0, 1}

\* C33: an accumulator, of a tool or of a thinking block, exists at index i
\* only from the start of a block at i to the next stop of i: after a stop of
\* i the parameters hold neither at i, whatever the order of the lines.
C33_AccumulatorLifecycle ==
    events # <<>> =>
        \A i \in StreamIndices :
            (i \in DOMAIN param.ToolCallsAccumulator \/ i \in DOMAIN param.ThinkingAccumulator)
                => StartedNotStopped(events, i)

\* what holds for every order: a tool accumulator lives from its start to the
\* next stop of its index, and a stop leaves a thinking accumulator behind only
\* when it closed a tool block of the same index
C33_OneBlockPerStop ==
    events # <<>> =>
        \A i \in StreamIndices :
            /\ i \in DOMAIN param.ToolCallsAccumulator
                  <=> OpenTool(events, i, Len(events) + 1) > 0
            /\ i \in DOMAIN param.ThinkingAccumulator
                  <=> OpenThinking(events, i, Len(events) + 1) > 0
            /\ (IsStop(LastLine, i) /\ i \in DOMAIN param.ThinkingAccumulator)
                  => OpenTool(events, i, Len(events)) > 0

\* a thinking block and a tool block at one index, one stop: the thinking
\* accumulator is still there
C33_WitnessLeftOpen ==
    /\ Len(events) = 3
    /\ events[1] = BlockStart("thinking", 0)
    /\ events[2] = BlockStart("tool_use", 0)
    /\ events[3] = BlockStop(0)
    /\ 0 \in DOMAIN param.ThinkingAccumulator
    /\ 0 \notin DOMAIN param.ToolCallsAccumulator

\* blocks at different indices, each discarded by its stop
C33_WitnessDiscarded ==
    /\ Len(events) = 4
    /\ events[1] = BlockStart("thinking", 1)
    /\ events[2] = BlockStart("tool_use", 0)
    /\ events[3] = BlockStop(1)
    /\ events[4] = BlockStop(0)
    /\ param.ThinkingAccumulator = << >>
    /\ param.ToolCallsAccumulator = << >>

(***************************************************************************)
(* The lines that change nothing: message_stop, ping, error, unknown types *)
(***************************************************************************)
Plain(type) == [BaseEvent EXCEPT !.type = type]

ErrorLine(message, type) ==
    [BaseEvent EXCEPT !.type = "error", !.hasError = TRUE,
                      !.errMessage = message, !.errType = type]

\* what fills the state, then the quiet lines; the last one is an error line
\* without the member "error"
FrameEvents ==
    {MessageStart, BlockStart("thinking", 0), BlockStart("tool_use", 1),
     Delta("thinking_delta", 0, <<"x">>), BlockStop(0),
     MessageDelta(TRUE, "max_tokens", FALSE, << >>),
     Plain("message_stop"), Plain("ping"), Plain("content_block"),
     ErrorLine("Overloaded", "overloaded_error"), Plain("error")}

NextFrame == \E ev \in FrameEvents : Receive(ev)

SpecFrame == InitResponse /\ [][NextFrame]_vars

\* *param as the call leaves it when it has nothing to record
ParamOr(p) == IF p = << >> THEN NewParams ELSE p

IsQuiet(e) == e.type \notin {"message_start", "content_block_start", "content_block_delta",
                             "content_block_stop", "message_delta", "error"}

\* the call that received the line e changed neither the parameters nor the caches
Untouching ==
    /\ ParamOr(param') = ParamOr(param)
    /\ thinkingCache' = thinkingCache
    /\ signatureCache' = signatureCache

ErrorObject(e) == [error |-> [message |-> e.errMessage, type |-> e.errType]]

\* the line the step receives and what the call returns for it
Received == events'[Len(events')]
Returned == chunks'[Len(chunks')]

\* the original statement: every error line returns exactly one error object
C34_ErrorAlwaysAnswered ==
    [][Len(events') = Len(events) + 1 =>
          /\ IsQuiet(Received) => (Returned = <<>> /\ Untouching)
          /\ Received.type = "error" => (Returned = <<ErrorObject(Received)>> /\ Untouching)
      ]_vars

\* C34: message_stop, ping and a line of unknown type return nothing and leave
\* the parameters (identifier, time, finish reason, both accumulator maps) and
\* the caches as they were; an error line that has the member "error" returns
\* exactly one object {"error": {message, type}}, which has none of the fields
\* of the chunk template, an error line without it returns nothing, and both
\* leave the state as it was.
C34_QuietLines ==
    [][Len(events') = Len(events) + 1 =>
          /\ IsQuiet(Received) => (Returned = <<>> /\ Untouching)
          /\ Received.type = "error" =>
                /\ Returned = IF Received.hasError THEN <<ErrorObject(Received)>> ELSE <<>>
                /\ \A n \in 1..Len(Returned) : DOMAIN Returned[n] = {"error"}
                /\ Untouching
      ]_vars

\* an error line arrived while a tool block and a thinking block were open,
\* after an identifier, a finish reason and a cache entry were recorded
FilledState ==
    /\ param # << >>
    /\ param.ResponseID = "msg_1"
    /\ DOMAIN param.ThinkingAccumulator = {0}

C34_Witness ==
    /\ Len(events) = 3
    /\ events[1] = MessageStart
    /\ events[2] = BlockStart("thinking", 0)
    /\ events[3] = ErrorLine("Overloaded", "overloaded_error")
    /\ chunks[3] = <<[error |-> [message |-> "Overloaded", type |-> "overloaded_error"]]>>
    /\ FilledState

\* a ping after a block was cached and a finish reason recorded
C34_WitnessPing ==
    /\ Len(events) = 4
    /\ events[4] = Plain("ping")
    /\ chunks[4] = <<>>
    /\ thinkingCache # << >>
    /\ param.ThinkingAccumulator = << >>

\* an error line without the member "error" returned nothing
C34_WitnessNoMember ==
    /\ Len(events) = 3
    /\ events[3] = Plain("error")
    /\ chunks[3] = <<>>
    /\ FilledState

(***************************************************************************)
(* extractThinkingFromContent on the texts a client can send back, against *)
(* a cache that holds, held or never held the entry of the marker          *)
(***************************************************************************)
Legacy(thinkingText, signature) ==
    <<FENCE, TAGTHINKING>> \o thinkingText \o <<FENCE, NL, FENCE, TAGSIGNATURE>>
        \o signature \o <<FENCE>>

\* a marker without the hex digits the expression asks for
MalformedMarker == <<FENCE, TAGID, FENCE>>

ExtractTexts ==
    {Full(<<NL, "x", NL>>, StoredID, <<"y">>),
     MarkerOnly(StoredID, <<"y">>),
     Full(<<NL, "x", NL>>, OtherID, <<"y">>),
     MarkerOnly(OtherID, <<"y">>),
     MarkerOnly(OtherID, Legacy(<<"x">>, <<SIGA, SIGB>>) \o <<NL, "y">>),
     Legacy(<<"x">>, <<SIGA, SIGB>>) \o <<NL, "y">>,
     <<FENCE, TAGTHINKING, "x", FENCE, NL, "y">>,
     ThinkPair(<<"x">>) \o <<NL, "y">>,
     ThinkPair(<<"x">>) \o MalformedMarker \o <<NL, "y">>,
     <<OT, "x", NL, "y">>,
     <<OT, CT>>,
     <<SP, "y", NL>>,
     TwoMarkers,
     Full(<<NL, "x", NL>>, StoredID, <<>>) \o Full(<<NL, "y", NL>>, OtherID, <<"y">>)}

\* the thinking texts of the responses that came before
RememberedTexts == {<<"x">>, <<"y">>}

InitExtract == InitCache

\* a thinking block closes in some response, before the text comes back
Remember(text, signature) ==
    /\ parts = << >>
    /\ Put(text, signature)

Elapse ==
    /\ parts = << >>
    /\ Tick

\* a message text of the request goes through extractThinkingFromContent
Extract(text) ==
    LET r == extractThinkingFromContent(text, thinkingCache, now)
    IN  /\ parts = << >>
        /\ parts' = [done |-> TRUE, text |-> text, items |-> r.parts,
                     cacheBefore |-> thinkingCache, at |-> now]
        /\ thinkingCache' = r.cache
        /\ cacheRes' = [op |-> "extract"]
        /\ UNCHANGED <<now, signatureCache, lastPut, lastTouch>>
        /\ UNCHANGED <<param, events, chunks, clientText>>
        /\ UNCHANGED <<requestVars, applyVars, aliasVars, auxVars>>

NextExtract ==
    \/ Elapse
    \/ \E text \in RememberedTexts, signature \in StoredSigs : Remember(text, signature)
    \/ \E text \in ExtractTexts : Extract(text)

SpecExtract == InitExtract /\ [][NextExtract]_vars

Extracted == parts # << >>

\* the entry under id can be restored at time t
Resolvable(cache, id, t) ==
    /\ id \in DOMAIN cache
    /\ t - cache[id].Timestamp <= ThinkingCacheTTL
    /\ HasValidSignature(cache[id].Signature)

HasIDMarker(text) == thinkIdFind(text, 1).ok

HasThinkPair(text) == thinkTagFind(text, 1).ok

HasLegacyPair(text) == legacyThinkingFind(text, 1).ok /\ legacySignatureFind(text, 1).ok

DelimiterTokens == {OT, CT, FENCE, TAGID, TAGTHINKING, TAGSIGNATURE}

IsLetter(tok) == tok \in {"x", "y"}

\* the letters of a text, in order
Letters(s) == SelectSeq(s, IsLetter)

\* the thinking texts and the texts of the items, one after the other
RECURSIVE ItemTokens(_)
ItemTokens(items) ==
    IF items = <<>>
    THEN <<>>
    ELSE (IF "thinking" \in DOMAIN Head(items) THEN Head(items).thinking ELSE <<>>)
            \o (IF "text" \in DOMAIN Head(items) THEN Head(items).text ELSE <<>>)
            \o ItemTokens(Tail(items))

\* a is b with some tokens left out
RECURSIVE IsSubsequence(_, _)
IsSubsequence(a, b) ==
    IF a = <<>> THEN TRUE
    ELSE IF b = <<>> THEN FALSE
    ELSE IF Head(a) = Head(b) THEN IsSubsequence(Tail(a), Tail(b))
    ELSE IsSubsequence(a, Tail(b))

Signed(items) == \E n \in 1..Len(items) : "signature" \in DOMAIN items[n]

\* the items are plain text only, free of delimiter tokens, or nothing
CleanedText(items) ==
    \/ items = <<>>
    \/ /\ Len(items) = 1
       /\ items[1].type = "text"
       /\ \A n \in 1..Len(items[1].text) : items[1].text[n] \notin DelimiterTokens

\* C35: the chain is first-match-wins and exhaustive: with an identifier
\* marker in the text the marker branch alone decides (the cached text and
\* signature, or an unsigned item, never the legacy pair); else with a legacy
\* pair the item has its text and signature; else the text comes back without
\* any delimiter token, or nothing; and in every branch every letter of the
\* input is in the output.
C35_FirstMatchExhaustive ==
    Extracted =>
        LET text == parts.text
            items == parts.items
            idMatch == thinkIdFind(text, 1)
        IN  /\ HasIDMarker(text) =>
                  IF Resolvable(parts.cacheBefore, idMatch.group, parts.at)
                  THEN /\ items # <<>>
                       /\ items[1] = [type |-> "thinking",
                                      thinking |-> parts.cacheBefore[idMatch.group].ThinkingText,
                                      signature |-> parts.cacheBefore[idMatch.group].Signature]
                  ELSE ~Signed(items)
            /\ (~HasIDMarker(text) /\ HasLegacyPair(text)) =>
                  /\ items # <<>>
                  /\ items[1] = [type |-> "thinking",
                                 thinking |-> legacyThinkingFind(text, 1).group,
                                 signature |-> legacySignatureFind(text, 1).group]
            /\ (~HasIDMarker(text) /\ ~HasLegacyPair(text)) => CleanedText(items)
            /\ IsSubsequence(Letters(text), Letters(ItemTokens(items)))

\* the chain as it runs: a marker that cannot be resolved and has no think
\* pair to fall back on goes on to the legacy pair and to the clean-up; the
\* clean-up takes out whole think pairs, markers and legacy blocks, text
\* included, and leaves an unpaired delimiter where it is; the text outside of
\* pairs and blocks is kept in every branch.
C35_ChainAsItRuns ==
    Extracted =>
        LET text == parts.text
            items == parts.items
            idMatch == thinkIdFind(text, 1)
            decided == HasIDMarker(text)
                          /\ (Resolvable(parts.cacheBefore, idMatch.group, parts.at)
                                 \/ HasThinkPair(text))
            outside == ReplaceAllString("legacySignature",
                           ReplaceAllString("legacyThinking",
                               ReplaceAllString("thinkId",
                                   ReplaceAllString("thinkTag", text))))
        IN  /\ decided =>
                  /\ items # <<>>
                  /\ items[1].type = "thinking"
                  /\ Signed(items) <=> Resolvable(parts.cacheBefore, idMatch.group, parts.at)
            /\ (~decided /\ HasLegacyPair(text)) =>
                  /\ items # <<>>
                  /\ items[1].thinking = legacyThinkingFind(text, 1).group
                  /\ items[1].signature = legacySignatureFind(text, 1).group
            /\ (~decided /\ ~HasLegacyPair(text)) =>
                  \/ items = <<>> /\ TrimSpace(outside) = <<>>
                  \/ items = <<[type |-> "text", text |-> TrimSpace(outside)]>>
            /\ IsSubsequence(Letters(outside), Letters(ItemTokens(items)))

\* a think pair followed by a malformed marker: the thinking text is gone and
\* the marker is in the text
C35_WitnessDropped ==
    /\ Extracted
    /\ parts.text = ThinkPair(<<"x">>) \o MalformedMarker \o <<NL, "y">>
    /\ parts.items = <<[type |-> "text", text |-> MalformedMarker \o <<NL, "y">>]>>

\* an unresolved marker without a think pair, and a legacy pair: the legacy
\* branch answered
C35_WitnessFallThrough ==
    /\ Extracted
    /\ HasIDMarker(parts.text)
    /\ HasLegacyPair(parts.text)
    /\ Signed(parts.items)
    /\ parts.items[1].signature = <<SIGA, SIGB>>

\* a resolved marker
C35_WitnessRestored ==
    /\ Extracted
    /\ parts.text = Full(<<NL, "x", NL>>, StoredID, <<"y">>)
    /\ parts.items = <<[type |-> "thinking", thinking |-> <<"x">>, signature |-> <<SIGA, SIGB>>],
                       [type |-> "text", text |-> <<"y">>]>>

(***************************************************************************)
(* The materialized response against the chunks of the same lines          *)
(***************************************************************************)
\* the content of the chunks returned for the text deltas, in order
RECURSIVE StreamedText(_)
StreamedText(k) ==
    IF k = 0
    THEN <<>>
    ELSE StreamedText(k - 1)
            \o (IF IsDelta(events[k], "text_delta", events[k].index)
                THEN ContentOf(chunks[k]) ELSE <<>>)

IdNameArguments(toolCall) ==
    [id |-> toolCall.id, type |-> toolCall.type,
     function |-> [name |-> toolCall.function.name,
                   arguments |-> toolCall.function.arguments]]

\* the tool calls of the chunks, in the order they were returned
RECURSIVE StreamedToolCalls(_)
StreamedToolCalls(k) ==
    IF k = 0
    THEN <<>>
    ELSE StreamedToolCalls(k - 1)
            \o (IF HasToolCalls(chunks[k])
                THEN <<IdNameArguments(chunks[k][1].delta.tool_calls[1])>> ELSE <<>>)

MaterializedToolCalls ==
    IF "tool_calls" \in DOMAIN nonStream.out.message
    THEN nonStream.out.message.tool_calls
    ELSE <<>>

\* the stream carried a finish reason
StreamFinished == param # << >> /\ param.FinishReason # ""

Materialized == nonStream # << >>

\* C36: the materialized message replays the lines as the streaming
\* translator does: its text is the concatenation of the streamed text
\* chunks, its tool calls are the streamed tool calls (id, name, arguments),
\* and its finish_reason is the streamed one.
C36_ReplaysTheStream ==
    Materialized =>
        /\ nonStream.out.message.content = [string |-> StreamedText(Len(events))]
        /\ MaterializedToolCalls = StreamedToolCalls(Len(events))
        /\ StreamFinished => nonStream.out.finish_reason = param.FinishReason

\* every tool block of the capture was started once, stopped once after that,
\* and received its fragments in between
ToolBlocksWhole ==
    \A i \in BlockIndices :
        \A j \in 1..Len(events) :
            IsBlockStart(events[j], "tool_use", i) =>
                LET stops == {s \in (j + 1)..Len(events) : IsStop(events[s], i)}
                IN  /\ LastStart(events, "tool_use", i, j) = 0
                    /\ LastStart(events, "tool_use", i, Len(events) + 1) = j
                    /\ Cardinality(stops) = 1
                    /\ \A m \in 1..Len(events) :
                          IsDelta(events[m], "input_json_delta", i)
                              => (j < m /\ \A s \in stops : m < s)

\* what the two translators agree on: the text always; the tool calls when
\* every tool block is whole; the finish reason when the capture has no tool
\* call, the materialized one being "tool_calls" when it has
C36_ReplaysText ==
    Materialized =>
        /\ nonStream.out.message.content = [string |-> StreamedText(Len(events))]
        /\ ToolBlocksWhole => MaterializedToolCalls = StreamedToolCalls(Len(events))
        /\ (StreamFinished /\ MaterializedToolCalls = <<>>)
              => nonStream.out.finish_reason = param.FinishReason
        /\ MaterializedToolCalls # <<>> => nonStream.out.finish_reason = "tool_calls"

\* a whole tool block, then end_turn: the chunk said "stop", the materialized
\* response says "tool_calls"
C36_WitnessFinishDiffers ==
    /\ Materialized
    /\ Len(events) = 3
    /\ events[1] = BlockStart("tool_use", 1)
    /\ events[2] = BlockStop(1)
    /\ events[3] = MessageDelta(TRUE, "end_turn", TRUE, FullUsage)
    /\ chunks[3][1].finish_reason = "stop"
    /\ nonStream.out.finish_reason = "tool_calls"
    /\ MaterializedToolCalls = StreamedToolCalls(3)

\* a tool block that was not stopped: no chunk has it, the materialized
\* response has it
C36_WitnessUnstopped ==
    /\ Materialized
    /\ events = <<BlockStart("tool_use", 1), Delta("input_json_delta", 1, <<"{a">>)>>
    /\ StreamedToolCalls(2) = <<>>
    /\ Len(MaterializedToolCalls) = 1

\* text and a whole tool call, replayed alike
C36_WitnessAlike ==
    /\ Materialized
    /\ Len(events) = 4
    /\ events[1] = Delta("text_delta", 2, <<"y">>)
    /\ events[2] = BlockStart("tool_use", 1)
    /\ events[3] = Delta("input_json_delta", 1, <<"{a">>)
    /\ events[4] = BlockStop(1)
    /\ nonStream.out.message.content = [string |-> <<"y">>]
    /\ MaterializedToolCalls = StreamedToolCalls(4)
    /\ Len(MaterializedToolCalls) = 1

(***************************************************************************)
(* The sweep against the callers that have returned                        *)
(***************************************************************************)
\* GetCachedSignature(sessionID, text) read through the map and its bucket
SignatureInMap(sessionID, text) ==
    IF sessionID \notin DOMAIN signatureCache
    THEN <<>>
    ELSE LET bucket == buckets[signatureCache[sessionID]]
             textHash == hashText(text)
         IN  IF textHash \notin DOMAIN bucket
                 \/ now - bucket[textHash].Timestamp > SignatureCacheTTL
             THEN <<>>
             ELSE bucket[textHash].Signature

\* CacheSignature of task p has returned and the TTL of its entry has not elapsed
StoredAndLive(p) ==
    /\ tasks[p].pc = "done"
    /\ now - tasks[p].at <= SignatureCacheTTL

\* C37: the sweep never loses a live entry: the signature of a CacheSignature
\* call that has returned is what GetCachedSignature finds under the same key
\* and text until the TTL elapses, however the sweep and the calls interleave.
C37_SweepKeepsLiveEntries ==
    \A p \in Tasks :
        StoredAndLive(p) =>
            SignatureInMap(tasks[p].sessionID, tasks[p].text) = tasks[p].signature

\* the same while the sweep has removed no session
C37_KeptWithoutRemoval ==
    ~sweeper.deleted =>
        \A p \in Tasks :
            StoredAndLive(p) =>
                SignatureInMap(tasks[p].sessionID, tasks[p].text) = tasks[p].signature

\* the sweep found the new bucket empty, the call wrote its entry and
\* returned, the sweep removed the session: the entry is not found
C37_WitnessLost ==
    \E p \in Tasks :
        /\ StoredAndLive(p)
        /\ now = 0
        /\ sweeper.deleted
        /\ signatureCache = << >>
        /\ hashText(tasks[p].text) \in DOMAIN buckets[tasks[p].sc]

\* an entry that outlived a pass of the sweep over its bucket
C37_WitnessKept ==
    \E p \in Tasks :
        /\ StoredAndLive(p)
        /\ sweeper.deleted
        /\ SignatureInMap(tasks[p].sessionID, tasks[p].text) = tasks[p].signature

(***************************************************************************)
(* GetCachedThinking step by step: Load, the test of the age, Delete.      *)
(* CacheThinking is one Store.  Calls of both run side by side.            *)
(***************************************************************************)
Getters == {1, 2}

IdleGetter == [pc |-> "idle", id |-> <<>>, entry |-> << >>, ret |-> NotFound]

InitLazy ==
    /\ now = 0
    /\ thinkingCache = << >>
    /\ CacheIdle
    /\ StreamIdle
    /\ RequestIdle
    /\ ApplyIdle
    /\ AliasIdle
    /\ nonStream = << >>
    /\ sweeper = << >>
    /\ buckets = << >>
    /\ tasks = [p \in Getters |-> IdleGetter]
    /\ globals = [raced |-> FALSE]

LazyFrame ==
    /\ UNCHANGED <<signatureCache, lastTouch>>
    /\ UNCHANGED <<streamVars, requestVars, applyVars, aliasVars, nonStream, sweeper, buckets>>

LazyTick ==
    /\ now < MaxTime
    /\ now' = now + 1
    /\ cacheRes' = [op |-> "tick"]
    /\ UNCHANGED <<thinkingCache, lastPut, tasks, globals>>
    /\ LazyFrame

\* CacheThinking(GenerateThinkingID(text), text, signature): thinkingCache.Store
StoreEntry(text, signature) ==
    LET id == GenerateThinkingID(text)
    IN  /\ thinkingCache' = CacheThinking(thinkingCache, id, text, signature, now)
        /\ lastPut' = MapPut(lastPut, id, [text |-> text, sig |-> signature, at |-> now])
        /\ cacheRes' = [op |-> "put", id |-> id]
        /\ UNCHANGED <<now, tasks, globals>>
        /\ LazyFrame

\* GetCachedThinking is entered: thinkingCache.Load(thinkingID)
LoadEntry(p, id) ==
    /\ tasks[p].pc = "idle"
    /\ id # <<>>
    /\ tasks' = [tasks EXCEPT ![p] =
                    IF id \in DOMAIN thinkingCache
                    THEN [pc |-> "Since", id |-> id, entry |-> thinkingCache[id],
                          ret |-> NotFound]
                    ELSE [pc |-> "done", id |-> id, entry |-> << >>, ret |-> NotFound]]
    /\ cacheRes' = [op |-> "load", id |-> id]
    /\ UNCHANGED <<now, thinkingCache, lastPut, globals>>
    /\ LazyFrame

\* time.Since(entry.Timestamp) > ThinkingCacheTTL, on the entry that was loaded
TestAge(p) ==
    /\ tasks[p].pc = "Since"
    /\ tasks' = [tasks EXCEPT ![p] =
                    IF now - tasks[p].entry.Timestamp > ThinkingCacheTTL
                    THEN [@ EXCEPT !.pc = "Delete"]
                    ELSE [@ EXCEPT !.pc = "done",
                                   !.ret = [found |-> TRUE,
                                            ThinkingText |-> tasks[p].entry.ThinkingText,
                                            Signature |-> tasks[p].entry.Signature]]]
    /\ cacheRes' = [op |-> "since", id |-> tasks[p].id]
    /\ UNCHANGED <<now, thinkingCache, lastPut, globals>>
    /\ LazyFrame

\* thinkingCache.Delete(thinkingID); raced records that the map held another
\* entry than the one the call had loaded
DeleteEntry(p) ==
    /\ tasks[p].pc = "Delete"
    /\ thinkingCache' = MapDelete(thinkingCache, tasks[p].id)
    /\ globals' = [raced |-> globals.raced
                              \/ (tasks[p].id \in DOMAIN thinkingCache
                                  /\ thinkingCache[tasks[p].id] # tasks[p].entry)]
    /\ tasks' = [tasks EXCEPT ![p] = [@ EXCEPT !.pc = "done"]]
    /\ cacheRes' = [op |-> "delete", id |-> tasks[p].id]
    /\ UNCHANGED <<now, lastPut>>
    /\ LazyFrame

\* the call returns
ReturnEntry(p) ==
    /\ tasks[p].pc = "done"
    /\ tasks' = [tasks EXCEPT ![p] = IdleGetter]
    /\ cacheRes' = [op |-> "get", id |-> tasks[p].id, ret |-> tasks[p].ret]
    /\ UNCHANGED <<now, thinkingCache, lastPut, globals>>
    /\ LazyFrame

LazyTexts == {<<"x">>}
LazySigs == {<<SIGA, SIGB>>}

NextLazy ==
    \/ LazyTick
    \/ \E text \in LazyTexts, signature \in LazySigs : StoreEntry(text, signature)
    \/ \E p \in Getters, text \in LazyTexts : LoadEntry(p, GenerateThinkingID(text))
    \/ \E p \in Getters : TestAge(p)
    \/ \E p \in Getters : DeleteEntry(p)
    \/ \E p \in Getters : ReturnEntry(p)

SpecLazy == InitLazy /\ [][NextLazy]_vars

\* the last Put of the identifier has returned and its TTL has not elapsed
FreshPut(id) == id \in DOMAIN lastPut /\ now - lastPut[id].at <= ThinkingCacheTTL

\* a Get of the identifier would return what that Put stored
Retrievable(id) ==
    /\ id \in DOMAIN thinkingCache
    /\ thinkingCache[id] = [ThinkingText |-> lastPut[id].text, Signature |-> lastPut[id].sig,
                            Timestamp |-> lastPut[id].at]

LazyIDs == {GenerateThinkingID(text) : text \in LazyTexts}

\* C38: lazy eviction removes only the expired entry it observed: whatever the
\* interleaving of a Get that finds an expired entry with a Put of the same
\* identifier, the entry of a Put that has returned is retrievable afterwards.
C38_EvictsOnlyWhatItSaw ==
    \A id \in LazyIDs : FreshPut(id) => Retrievable(id)

\* the same as long as no Delete met an entry other than the one it had loaded
C38_KeptWithoutRace ==
    ~globals.raced => \A id \in LazyIDs : FreshPut(id) => Retrievable(id)

\* a Get loaded the expired entry, a Put stored a fresh one, the Get deleted it
C38_WitnessLost ==
    \E id \in LazyIDs :
        /\ globals.raced
        /\ FreshPut(id)
        /\ lastPut[id].at = now
        /\ id \notin DOMAIN thinkingCache

\* a Get evicted the expired entry and a later Put is retrievable
C38_WitnessEvicted ==
    \E id \in LazyIDs :
        /\ ~globals.raced
        /\ cacheRes.op = "put"
        /\ lastPut[id].at > ThinkingCacheTTL
        /\ Retrievable(id)

(***************************************************************************)
(* Several think pairs, each followed by its marker, in one text           *)
(***************************************************************************)
\* the identifiers of the markers of a text, in order of appearance
RECURSIVE MarkersOf(_)
MarkersOf(text) ==
    LET m == thinkIdFind(text, 1)
    IN  IF ~m.ok THEN <<>>
        ELSE <<m.group>> \o MarkersOf(SubSeq(text, m.end + 1, Len(text)))

\* the number of think pairs of a text
RECURSIVE ThinkPairsOf(_)
ThinkPairsOf(text) ==
    LET m == thinkTagFind(text, 1)
    IN  IF ~m.ok THEN 0 ELSE 1 + ThinkPairsOf(SubSeq(text, m.end + 1, Len(text)))

\* at least two think pairs, as many markers
SeveralBlocks(text) ==
    Len(MarkersOf(text)) >= 2 /\ ThinkPairsOf(text) = Len(MarkersOf(text))

\* the thinking item of each marker that resolves, in order
RECURSIVE RestoredOf(_, _, _)
RestoredOf(ids, cache, t) ==
    IF ids = <<>>
    THEN <<>>
    ELSE (IF Resolvable(cache, Head(ids), t)
          THEN <<[type |-> "thinking", thinking |-> cache[Head(ids)].ThinkingText,
                  signature |-> cache[Head(ids)].Signature]>>
          ELSE <<>>) \o RestoredOf(Tail(ids), cache, t)

IsThinkingItem(item) == item.type = "thinking"

IsSignedItem(item) == item.type = "thinking" /\ "signature" \in DOMAIN item

\* the text items of the output, one after the other
RECURSIVE TextOfItems(_)
TextOfItems(items) ==
    IF items = <<>>
    THEN <<>>
    ELSE (IF Head(items).type = "text" THEN Head(items).text ELSE <<>>)
            \o TextOfItems(Tail(items))

\* C39: in a text of several think pairs, each followed by its marker, every
\* marker whose identifier is cached with a valid signature gives its own
\* thinking item (cached text and signature), in order of appearance; and no
\* think pair and no marker leaves the text without a thinking item for it.
C39_EveryMarkerRestored ==
    (Extracted /\ SeveralBlocks(parts.text)) =>
        LET ids == MarkersOf(parts.text)
            left == TextOfItems(parts.items)
        IN  /\ SelectSeq(parts.items, IsSignedItem) = RestoredOf(ids, parts.cacheBefore, parts.at)
            /\ Len(ids) - Len(MarkersOf(left)) <= Len(SelectSeq(parts.items, IsThinkingItem))
            /\ ThinkPairsOf(parts.text) - ThinkPairsOf(left)
                  <= Len(SelectSeq(parts.items, IsThinkingItem))

\* what such a text gives: one thinking item, decided by the first marker and
\* the first think pair, and a text without any pair or marker
C39_FirstMarkerDecides ==
    (Extracted /\ SeveralBlocks(parts.text)) =>
        LET ids == MarkersOf(parts.text)
            left == TextOfItems(parts.items)
            first == thinkTagFind(parts.text, 1)
        IN  /\ Len(SelectSeq(parts.items, IsThinkingItem)) = 1
            /\ parts.items[1] =
                  IF Resolvable(parts.cacheBefore, ids[1], parts.at)
                  THEN [type |-> "thinking",
                        thinking |-> parts.cacheBefore[ids[1]].ThinkingText,
                        signature |-> parts.cacheBefore[ids[1]].Signature]
                  ELSE [type |-> "thinking",
                        thinking |-> TrimSpace(UnescapeFence(first.group))]
            /\ MarkersOf(left) = <<>>
            /\ ThinkPairsOf(left) = 0

\* two blocks, both cached with a valid signature: one thinking item
C39_WitnessOneItem ==
    /\ Extracted
    /\ parts.text = Full(<<NL, "x", NL>>, StoredID, <<>>) \o Full(<<NL, "y", NL>>, OtherID, <<"y">>)
    /\ Resolvable(parts.cacheBefore, StoredID, parts.at)
    /\ Resolvable(parts.cacheBefore, OtherID, parts.at)
    /\ parts.items = <<[type |-> "thinking", thinking |-> <<"x">>, signature |-> <<SIGA, SIGB>>],
                       [type |-> "text", text |-> <<"y">>]>>

\* the first marker does not resolve, the second does: an unsigned item of the
\* first pair
C39_WitnessSecondCached ==
    /\ Extracted
    /\ parts.text = TwoMarkers
    /\ ~Resolvable(parts.cacheBefore, OtherID, parts.at)
    /\ Resolvable(parts.cacheBefore, StoredID, parts.at)
    /\ parts.items = <<[type |-> "thinking", thinking |-> <<"y">>],
                       [type |-> "text", text |-> <<"y">>]>>

(***************************************************************************)
(* The capacity of a bucket.  The file holds the package more than once:   *)
(* CacheSignature of lines 100-118 stores without looking at the size,     *)
(* CacheSignature of lines 606-661 evicts when the bucket is full.  A run  *)
(* is of one or of the other.                                              *)
(***************************************************************************)
\* MaxEntriesPerSession is 100 in the source; the buckets here are small
MaxEntriesPerSession == 4

CapacitySession == "s1"

CapacityTexts == {<<"x">>, <<"y">>, <<"x", "x">>, <<"x", "y">>, <<"y", "x">>, <<"y", "y">>}

CapacitySigs == {<<SIGA>>, <<SIGA, SIGB>>}

\* the clock runs until an entry of hour 0 has expired
CapacityHours == SignatureCacheTTL + 1

Restrict(bucket, keys) == [k \in keys |-> bucket[k]]

\* the entries of the bucket that have not expired at t
Unexpired(bucket, t) ==
    {k \in DOMAIN bucket : ~(t - bucket[k].Timestamp > SignatureCacheTTL)}

\* toRemove: a quarter of the entries, one at least
toRemove(n) == IF n \div 4 < 1 THEN 1 ELSE n \div 4

\* the first toRemove keys of a sort by timestamp; entries of one timestamp
\* come in any order
OldestSets(bucket) ==
    {R \in SUBSET DOMAIN bucket :
        /\ Cardinality(R) = toRemove(Cardinality(DOMAIN bucket))
        /\ \A r \in R, k \in DOMAIN bucket \ R :
              ~(bucket[k].Timestamp < bucket[r].Timestamp)}

\* the bucket as the insert finds it after the eviction at capacity
Evicted(bucket, t) ==
    IF Cardinality(DOMAIN bucket) >= MaxEntriesPerSession
    THEN LET live == Restrict(bucket, Unexpired(bucket, t))
         IN  IF Cardinality(DOMAIN live) >= MaxEntriesPerSession
             THEN {Restrict(live, DOMAIN live \ R) : R \in OldestSets(live)}
             ELSE {live}
    ELSE {bucket}

\* CacheSignature with the eviction: the signature caches the call may leave
CacheSignatureAtCapacity(sc, sessionID, text, signature, t) ==
    IF sessionID = "" \/ text = <<>> \/ signature = <<>>
    THEN {sc}
    ELSE IF ByteLen(signature) < MinValidSignatureLen
    THEN {sc}
    ELSE LET withSession == getOrCreateSession(sc, sessionID)
             textHash == hashText(text)
         IN  {[withSession EXCEPT ![sessionID] =
                  MapPut(kept, textHash, [Signature |-> signature, Timestamp |-> t])] :
                kept \in Evicted(withSession[sessionID], t)}

InitCapacity ==
    /\ now = 0
    /\ thinkingCache = << >>
    /\ signatureCache = << >>
    /\ cacheRes = [op |-> "init"]
    /\ lastPut = NoGhost
    /\ lastTouch = NoGhost
    /\ StreamIdle
    /\ RequestIdle
    /\ ApplyIdle
    /\ AliasIdle
    /\ nonStream = << >>
    /\ sweeper = << >>
    /\ buckets = << >>
    /\ tasks = << >>
    /\ globals \in {[evicts |-> FALSE], [evicts |-> TRUE]}

CapacityFrame ==
    /\ UNCHANGED <<thinkingCache, lastPut, lastTouch>>
    /\ UNCHANGED <<streamVars, requestVars, applyVars, aliasVars, auxVars>>

CapacityTick ==
    /\ now < CapacityHours
    /\ now' = now + 1
    /\ cacheRes' = [op |-> "tick"]
    /\ UNCHANGED signatureCache
    /\ CapacityFrame

\* what the call found and when
Stored(text, signature) ==
    [op |-> "CacheSignature", text |-> text, signature |-> signature, at |-> now,
     before |-> IF CapacitySession \in DOMAIN signatureCache
                THEN signatureCache[CapacitySession] ELSE << >>]

\* CacheSignature of lines 100-118
StorePlain(text, signature) ==
    /\ ~globals.evicts
    /\ signatureCache' = CacheSignature(signatureCache, CapacitySession, text, signature, now)
    /\ cacheRes' = Stored(text, signature)
    /\ UNCHANGED now
    /\ CapacityFrame

\* CacheSignature of lines 606-661
StoreAtCapacity(text, signature) ==
    /\ globals.evicts
    /\ signatureCache' \in
          CacheSignatureAtCapacity(signatureCache, CapacitySession, text, signature, now)
    /\ cacheRes' = Stored(text, signature)
    /\ UNCHANGED now
    /\ CapacityFrame

NextCapacity ==
    \/ CapacityTick
    \/ \E text \in CapacityTexts, signature \in CapacitySigs : StorePlain(text, signature)
    \/ \E text \in CapacityTexts, signature \in CapacitySigs : StoreAtCapacity(text, signature)

SpecCapacity == InitCapacity /\ [][NextCapacity]_vars

\* a call that passed the checks of its arguments has just returned
JustStored ==
    /\ cacheRes.op = "CacheSignature"
    /\ HasValidSignature(cacheRes.signature)

Size(bucket) == Cardinality(DOMAIN bucket)

\* the call found the bucket full
FoundFull == Size(cacheRes.before) >= MaxEntriesPerSession

\* the bucket after the call is what is left of before, and the new entry
LeftOf(before, gone) ==
    signatureCache[CapacitySession] =
        MapPut(Restrict(before, DOMAIN before \ gone), hashText(cacheRes.text),
               [Signature |-> cacheRes.signature, Timestamp |-> cacheRes.at])

\* expired entries first, the oldest quarter only when that was not enough,
\* nothing when there was room; the new entry is in the bucket
EvictedInOrder ==
    LET before == cacheRes.before
        expired == DOMAIN before \ Unexpired(before, cacheRes.at)
        live == Unexpired(before, cacheRes.at)
    IN  IF ~FoundFull
        THEN LeftOf(before, {})
        ELSE IF Cardinality(live) < MaxEntriesPerSession
        THEN LeftOf(before, expired)
        ELSE \E R \in SUBSET live :
                /\ Cardinality(R) = toRemove(Cardinality(live))
                /\ \A r \in R, k \in live \ R :
                      before[r].Timestamp <= before[k].Timestamp
                /\ LeftOf(before, expired \cup R)

\* C40: the capacity of a bucket: after any sequence of CacheSignature calls
\* no bucket holds more than MaxEntriesPerSession entries; an insert that finds
\* the bucket full removes the expired entries first and the oldest quarter
\* only if the bucket is still full; the inserted entry is present afterwards.
C40_CapacityBound ==
    /\ \A s \in DOMAIN signatureCache : Size(signatureCache[s]) <= MaxEntriesPerSession
    /\ JustStored => EvictedInOrder

\* the same, of the CacheSignature that looks at the size
C40_BoundWhereEvicting ==
    globals.evicts =>
        /\ \A s \in DOMAIN signatureCache : Size(signatureCache[s]) <= MaxEntriesPerSession
        /\ JustStored => EvictedInOrder

\* the CacheSignature of lines 100-118 stores always and removes nothing
C40_PlainStoreKeepsAll ==
    (~globals.evicts /\ JustStored) => LeftOf(cacheRes.before, {})

\* a bucket above the capacity
C40_WitnessOverfull ==
    /\ ~globals.evicts
    /\ JustStored
    /\ Size(signatureCache[CapacitySession]) = MaxEntriesPerSession + 1

\* a full bucket of live entries: the oldest goes
C40_WitnessOldestQuarter ==
    /\ globals.evicts
    /\ JustStored
    /\ FoundFull
    /\ Unexpired(cacheRes.before, cacheRes.at) = DOMAIN cacheRes.before
    /\ hashText(cacheRes.text) \notin DOMAIN cacheRes.before
    /\ Size(signatureCache[CapacitySession]) = MaxEntriesPerSession

\* a full bucket with expired entries: they go, nothing else
C40_WitnessExpiredFirst ==
    /\ globals.evicts
    /\ JustStored
    /\ FoundFull
    /\ Unexpired(cacheRes.before, cacheRes.at) \notin {{}, DOMAIN cacheRes.before}
    /\ DOMAIN signatureCache[CapacitySession] =
          Unexpired(cacheRes.before, cacheRes.at) \cup {hashText(cacheRes.text)}

====
